---- MODULE Spec2Model ----
(***************************************************************************)
(* The session protocol engine of xiaozhi-agent: the WebSocket handshake   *)
(* (src/app/server/websocket.py), the per-session listen/buffer/flush      *)
(* state machine and the delivery of a pipeline result to the client       *)
(* (src/app/main.py).                                                      *)
(*                                                                         *)
(* One connection task runs per connection (websockets.serve).  A task     *)
(* handles the units of its connection strictly one after the other        *)
(* (async for ... await handler); an action of the model is the code a     *)
(* task runs between two suspension points.                                *)
(***************************************************************************)
EXTENDS Integers, Sequences, FiniteSets, TLC

\* ------------------------------------------------------------------ bounds
\* Binary frames one client sends on its connection.
MaxFrames == 12
\* Text messages one client sends on its connection after its hello.
MaxMsgs == 2
\* Units that may wait unread in the receive queue of one connection.
MaxQueue == 1
\* Sentences of one synthesised response, and audio frames of one sentence.
MaxSentences == 2
MaxSentFrames == 3
\* Frames the client of one admitted session sends.
MaxSessionFrames == 2

\* ------------------------------------------------------- program constants
\* len(buffer) >= 10 in auto mode (main.py:63)
AutoFlushThreshold == 10
\* WS_PROTOCOL_VERSION (config.py:17)
WS_PROTOCOL_VERSION == 1
\* websocket.close(1002, "Invalid protocol version") (websocket.py:231)
CloseInvalidVersion == 1002
\* websocket.close(1008, "Unauthorized") (websocket.py:239, 245)
CloseUnauthorized == 1008
\* websocket.close() without arguments, and the close the library performs
\* when the connection handler returns: code 1000 (websocket.py:70)
CloseNormal == 1000
\* The connections of the model; one ClientSession (uuid4 id) per connection,
\* so a session is named by its connection.
Conns == {"c1"}

\* ListenMode (protocol.py:35-39); "absent" is a message without the field,
\* "none" the Python None.
AUTO == "auto"
MANUAL == "manual"
REALTIME == "realtime"
ABSENT == "absent"
NONE == "none"

\* str(WS_PROTOCOL_VERSION) (websocket.py:229): the decimal text of the int.
StrOfInt(n) == CASE n = 0 -> "0" [] n = 1 -> "1" [] n = 2 -> "2" [] OTHER -> "?"

\* Values of the Protocol-Version header a client may present.
VersionHeaders == {ABSENT, "1", "2", "1.0"}
\* AUTH_ENABLED (config.py:37), read once for each connection
\* (websocket.py:235); the model draws it where it is read.
AuthConfigs == BOOLEAN
\* Values of the Authorization header a client may present; the configured
\* secret is AUTH_SECRET_KEY (config.py:38).
AUTH_SECRET_KEY == "secret"
AuthHeaders == {"", "Basic secret", "Bearer wrong", "Bearer secret"}

\* auth_header.startswith("Bearer ") (websocket.py:237)
StartsWithBearer(h) == h \in {"Bearer wrong", "Bearer secret"}
\* auth_header[7:] (websocket.py:242)
TokenOf(h) == CASE h = "Bearer wrong" -> "wrong" [] h = "Bearer secret" -> "secret" [] OTHER -> ""
\* A _validate_token that takes any token that is not empty.
validate_token_nonempty(token) == token # ""
\* WebSocketServer._validate_token (websocket.py:358-370)
validate_token(token) == token = AUTH_SECRET_KEY

\* ------------------------------------------------------------ wire units
\* A parsed client text message: the fields the handlers read; ABSENT is a
\* key the JSON object does not carry.
Msg(type, state, mode, source, text, key) ==
    [type |-> type, state |-> state, mode |-> mode, source |-> source,
     text |-> text, key |-> key]
ListenStartMsg(mode) == Msg("listen", "start", mode, ABSENT, ABSENT, ABSENT)
ListenStopMsg == Msg("listen", "stop", ABSENT, ABSENT, ABSENT, ABSENT)
DetectMsg(source, text) == Msg("listen", "detect", ABSENT, source, text, ABSENT)
AbortMsg == Msg("abort", ABSENT, ABSENT, ABSENT, ABSENT, ABSENT)
IotMsg(key) == Msg("iot", ABSENT, ABSENT, ABSENT, ABSENT, key)
FunctionCallMsg == Msg("function_call", ABSENT, ABSENT, ABSENT, ABSENT, ABSENT)

\* No parsed message: the unit is not a text message.
NoMsg == Msg(ABSENT, ABSENT, ABSENT, ABSENT, ABSENT, ABSENT)

\* The text messages a client sends once admitted.
ClientMsgs ==
    {ListenStartMsg(m) : m \in {AUTO, MANUAL, REALTIME, ABSENT}}
    \cup {ListenStopMsg, AbortMsg, FunctionCallMsg}
    \cup {DetectMsg("text", "hi"), DetectMsg("audio", "hi")}
    \cup {IotMsg("descriptors"), IotMsg("commands")}

\* at: for an abort, how many units the server had sent to the client when
\* the abort arrived.
TextUnit(m, at) ==
    [k |-> "text", m |-> m, id |-> 0, v |-> ABSENT,
     at |-> IF m = AbortMsg THEN at ELSE 0]
\* Text that is no message, as ProtocolParser.parse_message sees it
\* (protocol.py:272-285):
\*   bad_json  text that json.loads rejects
\*   no_type   a JSON object without the key "type"
\*   list      a JSON list or string in which "type" does not occur
\*   scalar    a JSON number, true, false or null
MalformedKinds == {"bad_json", "no_type", "list", "scalar"}
RawUnit(v) == [k |-> "text", m |-> NoMsg, id |-> 0, v |-> v, at |-> 0]
\* The id of a binary frame is its position among the frames of its connection.
BinUnit(n) == [k |-> "bin", m |-> NoMsg, id |-> n, v |-> ABSENT, at |-> 0]

\* What a client may send as the first unit of a connection:
\*   ok         {"type":"hello","transport":..,"audio_params":..}
\*   missing    a JSON object that is no hello (wrong type, or no transport /
\*              audio_params)
\*   bad_json   text that json.loads rejects
\*   non_object valid JSON that is no object (a number, null, a list, a string)
HelloKinds == {"ok", "missing", "bad_json", "non_object"}
HelloUnit(v) == [k |-> "hello", m |-> NoMsg, id |-> 0, v |-> v, at |-> 0]

\* ------------------------------------------------------- outbound messages
\* A unit sent to the client: a ProtocolMessage (protocol.py:57-253) or a
\* binary audio frame; s is the sentence it belongs to and f the frame's
\* position in that sentence (0 where there is none).
Out(t, s, f) == [t |-> t, s |-> s, f |-> f]
HelloOut == Out("hello", 0, 0)
TtsStart == Out("tts_start", 0, 0)
TtsStop == Out("tts_stop", 0, 0)
TtsSentence(s) == Out("tts_sentence", s, 0)
AudioOut(s, f) == Out("audio", s, f)

\* ------------------------------------------------------------------ state
VARIABLES
    pc,                     \* where each connection task stands
    wsState,                \* transport: "unopened", "open", "closed"
    closes,                 \* close codes the server side sent, per connection
    inq,                    \* units received by the transport, not yet read
    sessions,               \* WebSocketServer.sessions (the registry)
    listening,              \* ClientSession.listening
    listen_mode,            \* ClientSession.listen_mode
    session_audio_buffers,  \* Application.session_audio_buffers
    active_sessions,        \* Application.active_sessions
    work,                   \* the handler a task is suspended in
    sent,                   \* units delivered to each client, in order
    flushLog,               \* buffers drained by process_audio_buffer, with the
                            \* session's listen mode at that time
    connects,               \* calls of Application.handle_connect
    disconnects,            \* calls of Application.handle_disconnect
    fired,                  \* what the log shows per connection: handler calls
                            \* ("message", "audio", "abort") and warnings
    everRegistered,         \* the connection had an entry in the registry
    framesSent,             \* binary frames each client has sent
    msgsSent,               \* text messages each client has sent
    delivered,              \* a result was handed to send_agent_response directly
    closing,                \* a close_session call: "no", "closing" (suspended in
                            \* session.close()), "returned"
    graph                   \* a run of AgentGraph.process_message: where it
                            \* stands, its state dictionary, the nodes that ran

vars == <<pc, wsState, closes, inq, sessions, listening,
          listen_mode, session_audio_buffers, active_sessions, work, sent,
          flushLog, connects, disconnects, fired, everRegistered,
          framesSent, msgsSent, delivered, closing, graph>>

\* ---------------------------------------------------------- Python dicts
Has(d, k) == k \in DOMAIN d
Put(d, k, v) == [x \in (DOMAIN d) \cup {k} |-> IF x = k THEN v ELSE d[x]]
Del(d, k) == [x \in (DOMAIN d) \ {k} |-> d[x]]
EmptyDict == [x \in {} |-> 0]

\* d.get(k, default)
Get(d, k, default) == IF Has(d, k) THEN d[k] ELSE default

\* No run of the agent graph: nothing was passed to process_message.
NoRun == [at |-> "start", type |-> NONE, data |-> NONE, st |-> EmptyDict,
          ran |-> <<>>,
          result |-> EmptyDict]

\* An entry of active_sessions: the keys the code stores.  ABSENT: no key.
EmptyInfo == [ids |-> FALSE, listening |-> ABSENT, listen_mode |-> ABSENT,
              descriptors |-> FALSE, states |-> FALSE]
\* self.active_sessions.get(session_id, {}).get("listen_mode")
InfoMode(info, c) ==
    IF Has(info, c) /\ info[c].listen_mode # ABSENT THEN info[c].listen_mode
    ELSE NONE

\* ------------------------------------------------- the state a handler sees
\* The code of a handler runs statement after statement on the server's and
\* the application's dictionaries; the operators below take that state as a
\* record and return it as the code leaves it.  raised: an exception that no
\* handler caught is propagating; call: the pipeline call the handler is
\* about to await; ret: what the last send_message or send_audio returned.
Cur ==
    [sessions |-> sessions, listening |-> listening, listen_mode |-> listen_mode,
     bufs |-> session_audio_buffers, info |-> active_sessions, sent |-> sent,
     flushLog |-> flushLog, connects |-> connects, disconnects |-> disconnects,
     fired |-> fired, raised |-> FALSE, call |-> NONE, ret |-> NONE]

\* A handle_disconnect that throws away the buffers and the session info of
\* every session.
handle_disconnect_everyone(st, c) ==
    [st EXCEPT !.bufs = EmptyDict,
               !.info = EmptyDict,
               !.disconnects[c] = @ + 1]

\* Application.handle_disconnect (main.py:190-204)
handle_disconnect(st, c) ==
    [st EXCEPT !.bufs = IF Has(st.bufs, c) THEN Del(st.bufs, c) ELSE st.bufs,
               !.info = IF Has(st.info, c) THEN Del(st.info, c) ELSE st.info,
               !.disconnects[c] = @ + 1]

\* A _handle_disconnect that does not test whether the session is registered.
ws_handle_disconnect_unguarded(st, c) ==
    handle_disconnect([st EXCEPT !.sessions = @ \ {c}], c)

\* WebSocketServer._handle_disconnect (websocket.py:343-356)
ws_handle_disconnect(st, c) ==
    IF c \in st.sessions
    THEN handle_disconnect([st EXCEPT !.sessions = @ \ {c}], c)
    ELSE st

\* A send_message that only reports a closed transport: no cleanup.
send_message_no_cleanup(st, c, m) ==
    IF c \in st.sessions /\ wsState[c] = "open"
    THEN [st EXCEPT !.sent[c] = Append(@, m), !.ret = "True"]
    ELSE [st EXCEPT !.ret = "False"]

\* WebSocketServer.send_message and send_audio (websocket.py:146-186): the
\* unit reaches the client when the session is registered and the transport
\* open; a closed transport raises ConnectionClosed, which is caught here.
send_message(st, c, m) ==
    IF c \in st.sessions
    THEN IF wsState[c] = "open"
         THEN [st EXCEPT !.sent[c] = Append(@, m), !.ret = "True"]
         ELSE [ws_handle_disconnect(st, c) EXCEPT !.ret = "False"]
    ELSE [st EXCEPT !.ret = "False"]

\* Application.handle_connect (main.py:168-188)
handle_connect(st, c) ==
    [st EXCEPT !.info = Put(st.info, c,
                            [EmptyInfo EXCEPT !.ids = TRUE, !.listening = "false",
                                              !.listen_mode = NONE]),
               !.bufs = Put(st.bufs, c, <<>>),
               !.connects[c] = @ + 1]

\* A process_audio_buffer that does not return on an empty buffer.
process_audio_buffer_on_empty(st, c) ==
    IF c \notin st.sessions THEN st
    ELSE [st EXCEPT !.flushLog[c] = Append(@, [frames |-> IF Has(st.bufs, c)
                                                          THEN st.bufs[c] ELSE <<>>,
                                               mode |-> InfoMode(st.info, c)]),
                    !.bufs = Put(st.bufs, c, <<>>),
                    !.raised = TRUE]

\* A process_audio_buffer that hands over the newest frame only.
process_audio_buffer_newest(st, c) ==
    IF ~Has(st.bufs, c) \/ st.bufs[c] = <<>> THEN st
    ELSE IF c \notin st.sessions THEN st
    ELSE [st EXCEPT !.flushLog[c] = Append(@, [frames |-> <<st.bufs[c][Len(st.bufs[c])]>>,
                                               mode |-> InfoMode(st.info, c)]),
                    !.bufs[c] = <<>>,
                    !.raised = TRUE]

\* Application.process_audio_buffer (main.py:206-242).  The buffer is taken
\* and cleared (225-226); building audio_params then reads
\* session.audio_format (231), an attribute ClientSession.__init__
\* (websocket.py:26-46) never sets: AttributeError, before the call of
\* agent_graph.process_audio_buffer (237) is reached.
process_audio_buffer(st, c) ==
    IF ~Has(st.bufs, c) \/ st.bufs[c] = <<>> THEN st
    ELSE IF c \notin st.sessions THEN st
    ELSE [st EXCEPT !.flushLog[c] = Append(@, [frames |-> st.bufs[c],
                                               mode |-> InfoMode(st.info, c)]),
                    !.bufs[c] = <<>>,
                    !.raised = TRUE]

\* A handle_audio whose auto-mode test is len(buffer) > 10.
handle_audio_late(st, c, frame) ==
    LET b0 == IF Has(st.bufs, c) THEN st.bufs ELSE Put(st.bufs, c, <<>>)
        b1 == [b0 EXCEPT ![c] = Append(@, frame)]
        s1 == [st EXCEPT !.bufs = b1, !.fired[c] = @ \cup {"audio"}]
        mode == InfoMode(st.info, c)
    IN  IF mode = REALTIME \/ (mode = AUTO /\ Len(b1[c]) > AutoFlushThreshold)
        THEN process_audio_buffer(s1, c)
        ELSE s1

\* A handle_audio that flushes at the threshold in realtime mode too.
handle_audio_threshold_only(st, c, frame) ==
    LET b0 == IF Has(st.bufs, c) THEN st.bufs ELSE Put(st.bufs, c, <<>>)
        b1 == [b0 EXCEPT ![c] = Append(@, frame)]
        s1 == [st EXCEPT !.bufs = b1, !.fired[c] = @ \cup {"audio"}]
        mode == InfoMode(st.info, c)
    IN  IF mode \in {REALTIME, AUTO} /\ Len(b1[c]) >= AutoFlushThreshold
        THEN process_audio_buffer(s1, c)
        ELSE s1

\* Application.handle_audio (main.py:42-64)
handle_audio(st, c, frame) ==
    LET b0 == IF Has(st.bufs, c) THEN st.bufs ELSE Put(st.bufs, c, <<>>)
        b1 == [b0 EXCEPT ![c] = Append(@, frame)]
        s1 == [st EXCEPT !.bufs = b1, !.fired[c] = @ \cup {"audio"}]
        mode == InfoMode(st.info, c)
    IN  IF mode = REALTIME \/ (mode = AUTO /\ Len(b1[c]) >= AutoFlushThreshold)
        THEN process_audio_buffer(s1, c)
        ELSE s1

\* Application.handle_message (main.py:66-166)
handle_message(st, c, m) ==
    LET s0 == [st EXCEPT !.fired[c] = @ \cup {"message"}]
    IN
    IF m.type = "listen" /\ m.state = "start" THEN
        \* message.get("mode", ListenMode.AUTO); the entry is replaced
        [s0 EXCEPT !.bufs = Put(s0.bufs, c, <<>>),
                   !.info = Put(s0.info, c,
                                [EmptyInfo EXCEPT
                                   !.listen_mode = IF m.mode = ABSENT THEN AUTO ELSE m.mode,
                                   !.listening = "true"])]
    ELSE IF m.type = "listen" /\ m.state = "stop" THEN
        LET s1 == IF Has(s0.info, c)
                  THEN [s0 EXCEPT !.info[c].listening = "false"] ELSE s0
        IN  IF Has(s1.bufs, c) /\ s1.bufs[c] # <<>>
            THEN process_audio_buffer(s1, c) ELSE s1
    ELSE IF m.type = "listen" /\ m.state = "detect" THEN
        IF m.source = "text"
        THEN [s0 EXCEPT !.call = "text"]
        ELSE IF Has(s0.bufs, c) THEN process_audio_buffer(s0, c) ELSE s0
    ELSE IF m.type = "abort" THEN
        LET s1 == [s0 EXCEPT !.fired[c] = @ \cup {"abort"}]
        IN  send_message(IF Has(s1.bufs, c) THEN [s1 EXCEPT !.bufs[c] = <<>>] ELSE s1,
                         c, TtsStop)
    ELSE IF m.type = "iot" THEN
        LET s1 == IF Has(s0.info, c) THEN s0
                  ELSE [s0 EXCEPT !.info = Put(s0.info, c, EmptyInfo)]
        IN  IF m.key = "descriptors"
            THEN [s1 EXCEPT !.info[c].descriptors = TRUE, !.call = "iot"]
            ELSE IF m.key = "states"
            THEN [s1 EXCEPT !.info[c].states = TRUE, !.call = "iot"]
            ELSE IF m.key = "commands" THEN [s0 EXCEPT !.call = "iot"]
            ELSE s0
    ELSE IF m.type = "function_call" THEN
        \* self.agent_graph.process_function_call (main.py:162): AgentGraph
        \* (graph.py:48-218) defines no such method: AttributeError
        [s0 EXCEPT !.raised = TRUE]
    ELSE s0

\* An is_listen_start_message that knows the auto mode only.
is_listen_start_message_auto_only(m) ==
    m.type = "listen" /\ m.state = "start" /\ m.mode = AUTO
\* ProtocolParser.is_listen_start_message (protocol.py:304-319)
is_listen_start_message(m) ==
    m.type = "listen" /\ m.state = "start" /\ m.mode # ABSENT
\* An is_listen_stop_message that takes every listen message other than a
\* start for a stop.
is_listen_stop_message_any_state(m) == m.type = "listen" /\ m.state # "start"
\* ProtocolParser.is_listen_stop_message (protocol.py:321-335)
is_listen_stop_message(m) == m.type = "listen" /\ m.state = "stop"

\* An on_text that leaves the listening flag alone at listen:stop.
on_text_stop_ignored(st, c, m) ==
    LET s1 == IF is_listen_start_message(m)
              THEN [st EXCEPT !.listening[c] = TRUE, !.listen_mode[c] = m.mode]
              ELSE st
    IN  handle_message(s1, c, m)

\* WebSocketServer._handle_messages, one text unit (websocket.py:324-341)
on_text(st, c, m) ==
    LET s1 == IF is_listen_start_message(m)
              THEN [st EXCEPT !.listening[c] = TRUE, !.listen_mode[c] = m.mode]
              ELSE IF is_listen_stop_message(m)
              THEN [st EXCEPT !.listening[c] = FALSE]
              ELSE st
    IN  handle_message(s1, c, m)

\* ProtocolParser.parse_message (protocol.py:259-285): the message, or the
\* exception that leaves it.  json.JSONDecodeError becomes ValueError (283-285);
\* `"type" not in message` (280) is true of an object, list or string without
\* it, and raises TypeError on a number, a boolean or null.
parse_message(u) ==
    CASE u.v = ABSENT -> "ok"
      [] u.v \in {"bad_json", "no_type", "list"} -> "ValueError"
      [] OTHER -> "TypeError"

\* WebSocketServer._handle_messages, one text unit with its try block
\* (websocket.py:324-341): ValueError is caught and logged as a warning, any
\* other exception leaves the loop.
handle_text(st, c, u) ==
    IF parse_message(u) = "ok" THEN on_text(st, c, u.m)
    ELSE IF parse_message(u) = "ValueError"
    THEN [st EXCEPT !.fired[c] = @ \cup {"invalid_message"}]
    ELSE [st EXCEPT !.raised = TRUE]

\* An on_binary that passes every frame to the audio handler.
on_binary_unguarded(st, c, frame) == handle_audio(st, c, frame)
\* WebSocketServer._handle_messages, one binary unit (websocket.py:320-323)
on_binary(st, c, frame) ==
    IF st.listening[c] THEN handle_audio(st, c, frame) ELSE st

\* ------------------------------------------------------- pipeline results
\* The keys of a pipeline result that send_agent_response reads, each as
\* "present and truthy".
Result(transcription, iot, emotion, function_call, skip_tts, response_text, keep) ==
    [transcription |-> transcription, iot |-> iot, emotion |-> emotion,
     function_call |-> function_call, skip_tts |-> skip_tts,
     response_text |-> response_text, keep_listening |-> keep]

\* AgentGraph.process_message's answer when the graph run raises
\* (graph.py:123-125): {"error": ...}
ErrorResult == Result(FALSE, FALSE, FALSE, FALSE, FALSE, FALSE, FALSE)

\* AgentGraph.process_text_input (graph.py:196-207): the state starts with
\* skip_tts = True and the text as transcription (graph.py:142-163), no node
\* changes skip_tts; LLMNode.process sets response_text and emotion
\* (llm.py:192-231) and IoTNode.process the processed commands
\* (iot.py:93-143).  No node sets function_call or keep_listening.
TextResults(text) ==
    {ErrorResult}
    \cup {Result(text # "", iot, TRUE, FALSE, TRUE, rt, FALSE) :
            iot \in IF text = "" THEN {FALSE} ELSE BOOLEAN,
            rt \in IF text = "" THEN {TRUE} ELSE BOOLEAN}

\* Application.send_agent_response (main.py:244-353), the sends up to the
\* first point where it branches on the state or awaits the synthesis:
\* todo is what it sends next, after what it does once todo is sent
\*   "keep": read active_sessions and, in auto mode with keep_listening,
\*           send listen:start (295-301, 347-353)
\*   "gen":  await generate_speech_frames (320-322)
\*   "end":  return
SeqIf(b, m) == IF b THEN <<m>> ELSE <<>>
\* A send_agent_response whose text branch does not return after the text
\* response: it goes on to the speech synthesis.
send_agent_response_falls_through(r) ==
    LET pre == SeqIf(r.transcription, Out("stt", 0, 0))
               \o SeqIf(r.iot, Out("iot", 0, 0))
               \o SeqIf(r.emotion, Out("llm", 0, 0))
               \o SeqIf(r.function_call, Out("function_call", 0, 0))
    IN  IF r.skip_tts /\ r.response_text
        THEN [r |-> r, todo |-> pre \o <<Out("text_response", 0, 0), TtsStart>>,
              after |-> "gen", text |-> ""]
        ELSE IF r.response_text
        THEN [r |-> r, todo |-> pre \o <<TtsStart>>, after |-> "gen", text |-> ""]
        ELSE [r |-> r, todo |-> pre, after |-> "end", text |-> ""]
send_agent_response(r) ==
    LET pre == SeqIf(r.transcription, Out("stt", 0, 0))
               \o SeqIf(r.iot, Out("iot", 0, 0))
               \o SeqIf(r.emotion, Out("llm", 0, 0))
               \o SeqIf(r.function_call, Out("function_call", 0, 0))
    IN  IF r.skip_tts /\ r.response_text
        THEN [r |-> r, todo |-> pre \o <<Out("text_response", 0, 0)>>, after |-> "keep", text |-> ""]
        ELSE IF r.response_text
        THEN [r |-> r, todo |-> pre \o <<TtsStart>>, after |-> "gen", text |-> ""]
        ELSE [r |-> r, todo |-> pre, after |-> "end", text |-> ""]

NoWork == [r |-> ErrorResult, todo |-> <<>>, after |-> "end", text |-> ""]
\* The task awaits a pipeline call: "text" process_text_input (main.py:111),
\* "iot" process_message (main.py:141, 149, 153).
Calling(kind, text) == [r |-> ErrorResult, todo |-> <<>>, after |-> kind, text |-> text]

\* TTSService.stream_speech collected by TTSNode.generate_speech_frames
\* (tts_service.py:173-197, tts.py:75-92): for each sentence its marker
\* (sentence, None), then ("", frame) for each of its frames.  counts[i] is
\* the number of frames synthesised for sentence i (0 when the synthesis of
\* the sentence raised, tts_service.py:195-197).
RECURSIVE SentenceFrames(_, _, _)
SentenceFrames(i, from, n) ==
    IF from > n THEN <<>>
    ELSE <<[sentence |-> 0, frame |-> from, of |-> i]>> \o SentenceFrames(i, from + 1, n)
\* A stream_speech that yields the frames of a sentence before its marker.
RECURSIVE stream_speech_frames_first(_, _)
stream_speech_frames_first(counts, i) ==
    IF i > Len(counts) THEN <<>>
    ELSE SentenceFrames(i, 1, counts[i])
         \o <<[sentence |-> i, frame |-> 0, of |-> i]>>
         \o stream_speech_frames_first(counts, i + 1)

RECURSIVE stream_speech(_, _)
stream_speech(counts, i) ==
    IF i > Len(counts) THEN <<>>
    ELSE <<[sentence |-> i, frame |-> 0, of |-> i]>>
         \o SentenceFrames(i, 1, counts[i])
         \o stream_speech(counts, i + 1)

\* The loop of send_agent_response over the frames (main.py:325-337), as the
\* units it sends: the sentence message when the tuple carries a sentence,
\* the audio frame when it carries a frame.
RECURSIVE FrameSends(_)
FrameSends(frames) ==
    IF frames = <<>> THEN <<>>
    ELSE LET x == Head(frames)
         IN  SeqIf(x.sentence # 0, TtsSentence(x.sentence))
             \o SeqIf(x.frame # 0, AudioOut(x.of, x.frame))
             \o FrameSends(Tail(frames))

\* ---------------------------------------------------------------- actions
Commit(st) ==
    /\ sessions' = st.sessions
    /\ listening' = st.listening
    /\ listen_mode' = st.listen_mode
    /\ session_audio_buffers' = st.bufs
    /\ active_sessions' = st.info
    /\ sent' = st.sent
    /\ flushLog' = st.flushLog
    /\ connects' = st.connects
    /\ disconnects' = st.disconnects
    /\ fired' = st.fired

CloseRec(code, reason) == [code |-> code, reason |-> reason]

\* The connection handler returns (websocket.py:273-278): the finally block
\* runs _handle_disconnect, then the library closes a transport that is still
\* open with the normal code and drops what was not read.
TaskEnds(st, c) ==
    /\ Commit(ws_handle_disconnect(st, c))
    /\ pc' = [pc EXCEPT ![c] = "done"]
    /\ work' = [work EXCEPT ![c] = NoWork]
    /\ inq' = [inq EXCEPT ![c] = <<>>]
    /\ wsState' = [wsState EXCEPT ![c] = "closed"]
    /\ closes' = [closes EXCEPT ![c] =
                    IF wsState[c] = "open" THEN Append(@, CloseRec(CloseNormal, "")) ELSE @]

\* The handler of one unit returned to the message loop, raised, or awaits a
\* pipeline call.
AfterHandler(st, c) ==
    IF st.raised THEN TaskEnds(st, c)
    ELSE /\ Commit(st)
         /\ pc' = [pc EXCEPT ![c] = IF st.call = NONE THEN "idle" ELSE "pipeline"]
         /\ inq' = [inq EXCEPT ![c] = Tail(@)]
         /\ UNCHANGED <<wsState, closes>>

\* A connection handler that does not look at the Protocol-Version header.
handle_connection_any_version(c, enabled, pv, auth) ==
    /\ pc[c] = "new"
    /\ UNCHANGED <<inq, listening, listen_mode, session_audio_buffers,
                   active_sessions, work, sent, flushLog, connects, disconnects,
                   fired, framesSent, msgsSent, delivered, closes, closing, graph>>
    /\ sessions' = sessions \cup {c}
    /\ everRegistered' = [everRegistered EXCEPT ![c] = TRUE]
    /\ wsState' = [wsState EXCEPT ![c] = "open"]
    /\ pc' = [pc EXCEPT ![c] = "await_hello"]

\* WebSocketServer._handle_connection up to the wait for the hello
\* (websocket.py:215-258): the headers are checked, then the session is
\* created and entered in self.sessions.
handle_connection(c, enabled, pv, auth) ==
    /\ pc[c] = "new"
    /\ UNCHANGED <<inq, listening, listen_mode, session_audio_buffers,
                   active_sessions, work, sent, flushLog, connects, disconnects,
                   fired, framesSent, msgsSent, delivered, closing, graph>>
    /\ IF pv # ABSENT /\ pv # StrOfInt(WS_PROTOCOL_VERSION)
       THEN /\ closes' = [closes EXCEPT ![c] =
                            Append(@, CloseRec(CloseInvalidVersion, "Invalid protocol version"))]
            /\ wsState' = [wsState EXCEPT ![c] = "closed"]
            /\ pc' = [pc EXCEPT ![c] = "done"]
            /\ UNCHANGED <<sessions, everRegistered>>
       ELSE IF enabled /\ (~StartsWithBearer(auth) \/ ~validate_token(TokenOf(auth)))
       THEN /\ closes' = [closes EXCEPT ![c] =
                            Append(@, CloseRec(CloseUnauthorized, "Unauthorized"))]
            /\ wsState' = [wsState EXCEPT ![c] = "closed"]
            /\ pc' = [pc EXCEPT ![c] = "done"]
            /\ UNCHANGED <<sessions, everRegistered>>
       ELSE /\ sessions' = sessions \cup {c}
            /\ everRegistered' = [everRegistered EXCEPT ![c] = TRUE]
            /\ wsState' = [wsState EXCEPT ![c] = "open"]
            /\ pc' = [pc EXCEPT ![c] = "await_hello"]
            /\ UNCHANGED closes

\* hello_received is False (websocket.py:259-262): session.close(), the entry
\* is deleted, return; the finally block then finds no entry.
HelloRejected(c, warning) ==
    /\ sessions' = sessions \ {c}
    /\ fired' = [fired EXCEPT ![c] = @ \cup {warning}]
    /\ closes' = [closes EXCEPT ![c] =
                    IF wsState[c] = "open" THEN Append(@, CloseRec(CloseNormal, "")) ELSE @]
    /\ wsState' = [wsState EXCEPT ![c] = "closed"]
    /\ pc' = [pc EXCEPT ![c] = "done"]
    /\ inq' = [inq EXCEPT ![c] = <<>>]
    /\ UNCHANGED <<listening, listen_mode, session_audio_buffers, active_sessions,
                   sent, flushLog, connects, disconnects, work>>

\* _wait_for_hello read a unit (websocket.py:291-307) and _handle_connection
\* goes on (websocket.py:259-272)
wait_for_hello(c) ==
    /\ pc[c] = "await_hello"
    /\ inq[c] # <<>>
    /\ UNCHANGED <<everRegistered, framesSent, msgsSent, delivered, closing, graph>>
    /\ LET v == Head(inq[c]).v
       IN  IF v = "ok"
           THEN IF wsState[c] = "open"
                THEN \* session.send_message(hello), then on_connect_handler
                     /\ Commit(handle_connect([Cur EXCEPT !.sent[c] = Append(@, HelloOut)], c))
                     /\ pc' = [pc EXCEPT ![c] = "idle"]
                     /\ inq' = [inq EXCEPT ![c] = Tail(@)]
                     /\ UNCHANGED <<wsState, closes, work>>
                ELSE \* ConnectionClosed out of session.send_message (265)
                     TaskEnds(Cur, c)
           ELSE IF v = "non_object"
           THEN \* message.get on a value that is no dict (protocol.py:299):
                \* AttributeError, caught at websocket.py:275
                TaskEnds(Cur, c)
           ELSE HelloRejected(c, "invalid_hello")

\* asyncio.TimeoutError after DEFAULT_TIMEOUT (websocket.py:308-310)
hello_timeout(c) ==
    /\ pc[c] = "await_hello"
    /\ inq[c] = <<>>
    /\ wsState[c] = "open"
    /\ HelloRejected(c, "hello_timeout")
    /\ UNCHANGED <<everRegistered, framesSent, msgsSent, delivered, closing, graph>>

\* recv raises ConnectionClosed while waiting for the hello (websocket.py:291,
\* 273-278)
hello_closed(c) ==
    /\ pc[c] = "await_hello"
    /\ inq[c] = <<>>
    /\ wsState[c] = "closed"
    /\ TaskEnds(Cur, c)
    /\ UNCHANGED <<everRegistered, framesSent, msgsSent, delivered, closing, graph>>

\* ------------------------------------------------------------ the clients
\* The client sends its first unit.
ClientHello(c, v) ==
    /\ pc[c] = "await_hello"
    /\ wsState[c] = "open"
    /\ inq[c] = <<>>
    /\ inq' = [inq EXCEPT ![c] = <<HelloUnit(v)>>]
    /\ UNCHANGED <<pc, wsState, closes, sessions, listening, listen_mode,
                   session_audio_buffers, active_sessions, work, sent, flushLog,
                   connects, disconnects, fired, everRegistered, framesSent,
                   msgsSent, delivered, closing, graph>>

Admitted(c) == pc[c] \in {"idle", "pipeline", "send", "gen"}

ClientSendText(c, m) ==
    /\ Admitted(c)
    /\ wsState[c] = "open"
    /\ Len(inq[c]) < MaxQueue
    /\ msgsSent[c] < MaxMsgs
    /\ inq' = [inq EXCEPT ![c] = Append(@, TextUnit(m, Len(sent[c])))]
    /\ msgsSent' = [msgsSent EXCEPT ![c] = @ + 1]
    /\ UNCHANGED <<pc, wsState, closes, sessions, listening, listen_mode,
                   session_audio_buffers, active_sessions, work, sent, flushLog,
                   connects, disconnects, fired, everRegistered, framesSent, delivered, closing, graph>>

ClientSendFrame(c) ==
    /\ Admitted(c)
    /\ wsState[c] = "open"
    /\ Len(inq[c]) < MaxQueue
    /\ framesSent[c] < MaxFrames
    /\ inq' = [inq EXCEPT ![c] = Append(@, BinUnit(framesSent[c] + 1))]
    /\ framesSent' = [framesSent EXCEPT ![c] = @ + 1]
    /\ UNCHANGED <<pc, wsState, closes, sessions, listening, listen_mode,
                   session_audio_buffers, active_sessions, work, sent, flushLog,
                   connects, disconnects, fired, everRegistered, msgsSent, delivered, closing, graph>>

\* The client closes the connection, or the connection breaks.
ClientClose(c) ==
    /\ pc[c] \in {"await_hello", "idle", "pipeline", "send", "gen"}
    /\ wsState[c] = "open"
    /\ wsState' = [wsState EXCEPT ![c] = "closed"]
    /\ UNCHANGED <<pc, closes, inq, sessions, listening, listen_mode,
                   session_audio_buffers, active_sessions, work, sent, flushLog,
                   connects, disconnects, fired, everRegistered, framesSent,
                   msgsSent, delivered, closing, graph>>

\* -------------------------------------------------------- the message loop
\* A task suspended in a pipeline call or in the sends of a response.
Suspended(c) == pc[c] \in {"pipeline", "send", "gen"}

\* A message loop that takes no frame while the task of another connection
\* is in a pipeline call or sends a response: calls that block the event
\* loop instead of suspending the task.
RecvBinary_blocking(c) ==
    /\ \A d \in (DOMAIN pc) \ {c} : ~Suspended(d)
    /\ pc[c] = "idle"
    /\ inq[c] # <<>>
    /\ Head(inq[c]).k = "bin"
    /\ AfterHandler(on_binary(Cur, c, Head(inq[c]).id), c)
    /\ UNCHANGED <<everRegistered, framesSent, msgsSent, delivered, closing, graph>>
    /\ IF on_binary(Cur, c, Head(inq[c]).id).raised THEN TRUE ELSE UNCHANGED work

\* WebSocketServer._handle_messages reads a binary unit (websocket.py:319-323)
RecvBinary(c) ==
    /\ pc[c] = "idle"
    /\ inq[c] # <<>>
    /\ Head(inq[c]).k = "bin"
    /\ AfterHandler(on_binary(Cur, c, Head(inq[c]).id), c)
    /\ UNCHANGED <<everRegistered, framesSent, msgsSent, delivered, closing, graph>>
    /\ IF on_binary(Cur, c, Head(inq[c]).id).raised THEN TRUE ELSE UNCHANGED work

\* WebSocketServer._handle_messages reads a text unit (websocket.py:324-341)
RecvText(c) ==
    /\ pc[c] = "idle"
    /\ inq[c] # <<>>
    /\ Head(inq[c]).k = "text"
    /\ LET m == Head(inq[c]).m
           st == handle_text(Cur, c, Head(inq[c]))
       IN  /\ AfterHandler(st, c)
           /\ IF st.raised THEN TRUE
              ELSE work' = [work EXCEPT ![c] =
                              IF st.call = NONE THEN NoWork ELSE Calling(st.call, m.text)]
    /\ UNCHANGED <<everRegistered, framesSent, msgsSent, delivered, closing, graph>>

\* The async for ends: the transport is closed and nothing is left to read
\* (websocket.py:319, 277-278)
LoopEnds(c) ==
    /\ pc[c] = "idle"
    /\ inq[c] = <<>>
    /\ wsState[c] = "closed"
    /\ TaskEnds(Cur, c)
    /\ UNCHANGED <<everRegistered, framesSent, msgsSent, delivered, closing, graph>>

\* send_agent_response is entered with result r, or the handler returns when
\* there is nothing to send.
Respond(c, r) ==
    LET w == send_agent_response(r)
    IN  /\ work' = [work EXCEPT ![c] = IF w.todo = <<>> THEN NoWork ELSE w]
        /\ pc' = [pc EXCEPT ![c] = IF w.todo = <<>> THEN "idle" ELSE "send"]

\* The awaited pipeline call returns (main.py:111-112, 141, 149, 153)
PipelineReturns(c) ==
    /\ pc[c] = "pipeline"
    /\ IF work[c].after = "iot"
       THEN /\ pc' = [pc EXCEPT ![c] = "idle"]
            /\ work' = [work EXCEPT ![c] = NoWork]
       ELSE \E r \in TextResults(work[c].text) : Respond(c, r)
    /\ UNCHANGED <<wsState, closes, inq, sessions, listening, listen_mode,
                   session_audio_buffers, active_sessions, sent, flushLog, connects,
                   disconnects, fired, everRegistered, framesSent, msgsSent, delivered, closing, graph>>

\* One send of send_agent_response (main.py:252-353)
SendStep(c) ==
    /\ pc[c] = "send"
    /\ LET w == work[c]
           st == send_message(Cur, c, Head(w.todo))
           rest == Tail(w.todo)
           keep == w.r.keep_listening /\ InfoMode(st.info, c) = AUTO
       IN  /\ Commit(st)
           /\ IF rest # <<>>
              THEN /\ work' = [work EXCEPT ![c].todo = rest]
                   /\ UNCHANGED pc
              ELSE IF w.after = "gen"
              THEN /\ work' = [work EXCEPT ![c].todo = rest]
                   /\ pc' = [pc EXCEPT ![c] = "gen"]
              ELSE IF w.after = "keep" /\ keep
              THEN /\ work' = [work EXCEPT ![c].todo = <<Out("listen_start", 0, 0)>>,
                                           ![c].after = "end"]
                   /\ UNCHANGED pc
              ELSE /\ work' = [work EXCEPT ![c] = NoWork]
                   /\ pc' = [pc EXCEPT ![c] = "idle"]
    /\ UNCHANGED <<wsState, closes, inq, everRegistered, framesSent,
                   msgsSent, delivered, closing, graph>>

Init ==
    /\ pc = [c \in Conns |-> "new"]
    /\ wsState = [c \in Conns |-> "unopened"]
    /\ closes = [c \in Conns |-> <<>>]
    /\ inq = [c \in Conns |-> <<>>]
    /\ sessions = {}
    /\ listening = [c \in Conns |-> FALSE]
    /\ listen_mode = [c \in Conns |-> NONE]
    /\ session_audio_buffers = EmptyDict
    /\ active_sessions = EmptyDict
    /\ work = [c \in Conns |-> NoWork]
    /\ sent = [c \in Conns |-> <<>>]
    /\ flushLog = [c \in Conns |-> <<>>]
    /\ connects = [c \in Conns |-> 0]
    /\ disconnects = [c \in Conns |-> 0]
    /\ fired = [c \in Conns |-> {}]
    /\ everRegistered = [c \in Conns |-> FALSE]
    /\ framesSent = [c \in Conns |-> 0]
    /\ msgsSent = [c \in Conns |-> 0]
    /\ delivered = [c \in Conns |-> FALSE]
    /\ closing = [c \in Conns |-> "no"]
    /\ graph = NoRun

Next ==
    \E c \in Conns :
        \/ \E enabled \in AuthConfigs, pv \in VersionHeaders, auth \in AuthHeaders :
              handle_connection(c, enabled, pv, auth)
        \/ \E v \in HelloKinds : ClientHello(c, v)
        \/ wait_for_hello(c)
        \/ hello_timeout(c)
        \/ hello_closed(c)
        \/ \E m \in ClientMsgs : ClientSendText(c, m)
        \/ ClientSendFrame(c)
        \/ ClientClose(c)
        \/ RecvBinary(c)
        \/ RecvText(c)
        \/ LoopEnds(c)
        \/ PipelineReturns(c)
        \/ SendStep(c)

Spec == Init /\ [][Next]_vars

\* ------------------------------------------------- the response streamer
\* Application.send_agent_response on its own: a pipeline result with the
\* synthesis enabled reaches it.  (In the server as it stands only
\* process_text_input's results do: the two other callers raise before the
\* call, main.py:162 and main.py:231.)
StreamResults ==
    {Result(TRUE, FALSE, TRUE, FALSE, FALSE, TRUE, keep) : keep \in BOOLEAN}
    \cup {Result(TRUE, FALSE, FALSE, FALSE, FALSE, FALSE, FALSE)}

SpeechCounts ==
    UNION {[1..n -> 0..MaxSentFrames] : n \in 0..MaxSentences}

DeliverResult(c, r) ==
    /\ pc[c] = "idle"
    /\ inq[c] = <<>>
    /\ ~delivered[c]
    /\ delivered' = [delivered EXCEPT ![c] = TRUE]
    /\ Respond(c, r)
    /\ UNCHANGED <<wsState, closes, inq, sessions, listening, listen_mode,
                   session_audio_buffers, active_sessions, sent, flushLog, connects,
                   disconnects, fired, everRegistered, framesSent, msgsSent, closing, graph>>

\* The client sends one abort, before, while or after the result is delivered.
ClientAborts(c) ==
    /\ msgsSent[c] = 0
    /\ ClientSendText(c, AbortMsg)

\* A GenSpeech whose response ends with its last frame, without a TTS stop.
GenSpeech_no_stop(c, counts) ==
    /\ pc[c] = "gen"
    /\ work' = [work EXCEPT ![c].todo = FrameSends(stream_speech(counts, 1)),
                            ![c].after = "keep"]
    /\ pc' = [pc EXCEPT ![c] = IF work'[c].todo = <<>> THEN "idle" ELSE "send"]
    /\ UNCHANGED <<wsState, closes, inq, sessions, listening, listen_mode,
                   session_audio_buffers, active_sessions, sent, flushLog, connects,
                   disconnects, fired, everRegistered, framesSent, msgsSent, delivered, closing, graph>>

\* generate_speech_frames returns (main.py:320-322); the loop over the frames
\* and the TTS stop follow (main.py:325-343)
GenSpeech(c, counts) ==
    /\ pc[c] = "gen"
    /\ work' = [work EXCEPT ![c].todo = FrameSends(stream_speech(counts, 1)) \o <<TtsStop>>,
                            ![c].after = "keep"]
    /\ pc' = [pc EXCEPT ![c] = "send"]
    /\ UNCHANGED <<wsState, closes, inq, sessions, listening, listen_mode,
                   session_audio_buffers, active_sessions, sent, flushLog, connects,
                   disconnects, fired, everRegistered, framesSent, msgsSent, delivered, closing, graph>>

\* The state after a handshake that succeeded (websocket.py:253-269,
\* main.py:168-188), the client about to send.
InitStream ==
    /\ pc = [c \in Conns |-> "idle"]
    /\ wsState = [c \in Conns |-> "open"]
    /\ closes = [c \in Conns |-> <<>>]
    /\ inq = [c \in Conns |-> <<>>]
    /\ sessions = Conns
    /\ listening = [c \in Conns |-> FALSE]
    /\ listen_mode = [c \in Conns |-> NONE]
    /\ session_audio_buffers = [c \in Conns |-> <<>>]
    /\ active_sessions = [c \in Conns |->
                            [EmptyInfo EXCEPT !.ids = TRUE, !.listening = "false",
                                              !.listen_mode = NONE]]
    /\ work = [c \in Conns |-> NoWork]
    /\ sent = [c \in Conns |-> <<HelloOut>>]
    /\ flushLog = [c \in Conns |-> <<>>]
    /\ connects = [c \in Conns |-> 1]
    /\ disconnects = [c \in Conns |-> 0]
    /\ fired = [c \in Conns |-> {}]
    /\ everRegistered = [c \in Conns |-> TRUE]
    /\ framesSent = [c \in Conns |-> 0]
    /\ msgsSent = [c \in Conns |-> 0]
    /\ delivered = [c \in Conns |-> FALSE]
    /\ closing = [c \in Conns |-> "no"]
    /\ graph = NoRun

NextStream ==
    \E c \in Conns :
        \/ \E r \in StreamResults : DeliverResult(c, r)
        \/ \E counts \in SpeechCounts : GenSpeech(c, counts)
        \/ SendStep(c)
        \/ ClientAborts(c)
        \/ ClientClose(c)
        \/ RecvText(c)
        \/ LoopEnds(c)

SpecStream == InitStream /\ [][NextStream]_vars

\* ------------------------------------------------ one admitted session
\* An admitted session whose client also sends text that is no message, and
\* which a task of the server closes with WebSocketServer.close_session (no
\* code of the repository calls it; it is the server's interface for that).
SessionMsgs == {ListenStartMsg(MANUAL), DetectMsg("text", "hi")}

ClientSendRaw(c, v) ==
    /\ Admitted(c)
    /\ wsState[c] = "open"
    /\ Len(inq[c]) < MaxQueue
    /\ msgsSent[c] < MaxMsgs
    /\ inq' = [inq EXCEPT ![c] = Append(@, RawUnit(v))]
    /\ msgsSent' = [msgsSent EXCEPT ![c] = @ + 1]
    /\ UNCHANGED <<pc, wsState, closes, sessions, listening, listen_mode,
                   session_audio_buffers, active_sessions, work, sent, flushLog,
                   connects, disconnects, fired, everRegistered, framesSent,
                   delivered, closing, graph>>

SessionSendFrame(c) ==
    /\ framesSent[c] < MaxSessionFrames
    /\ ClientSendFrame(c)

\* WebSocketServer.close_session up to its first await (websocket.py:197-200):
\* get_session found the session, session.close() closes the transport
\* (websocket.py:68-71) and the caller waits for the closing handshake.
close_session(c) ==
    /\ closing[c] = "no"
    /\ c \in sessions
    /\ closing' = [closing EXCEPT ![c] = "closing"]
    /\ closes' = [closes EXCEPT ![c] =
                    IF wsState[c] = "open" THEN Append(@, CloseRec(CloseNormal, "")) ELSE @]
    /\ wsState' = [wsState EXCEPT ![c] = "closed"]
    /\ UNCHANGED <<pc, inq, sessions, listening, listen_mode, session_audio_buffers,
                   active_sessions, work, sent, flushLog, connects, disconnects,
                   fired, everRegistered, framesSent, msgsSent, delivered, graph>>

\* session.close() returned: _handle_disconnect, return True
\* (websocket.py:201-202)
close_session_returns(c) ==
    /\ closing[c] = "closing"
    /\ closing' = [closing EXCEPT ![c] = "returned"]
    /\ Commit(ws_handle_disconnect(Cur, c))
    /\ UNCHANGED <<pc, wsState, closes, inq, work, everRegistered, framesSent,
                   msgsSent, delivered, graph>>

NextSession ==
    \E c \in Conns :
        \/ \E m \in SessionMsgs : ClientSendText(c, m)
        \/ \E v \in MalformedKinds : ClientSendRaw(c, v)
        \/ SessionSendFrame(c)
        \/ ClientClose(c)
        \/ close_session(c)
        \/ close_session_returns(c)
        \/ RecvBinary(c)
        \/ RecvText(c)
        \/ LoopEnds(c)
        \/ PipelineReturns(c)
        \/ SendStep(c)

SpecSession == InitStream /\ [][NextSession]_vars

\* ------------------------------------------------------ several responses
\* One admitted session on which every frame the client sends reaches a
\* flush whose pipeline call returns a result (the hand-over that
\* process_audio_buffer is written to make, main.py:237-242), with text
\* messages arriving in between.
ReplyMsgs == {DetectMsg("text", "hi"), ListenStartMsg(AUTO), FunctionCallMsg}
\* Frames per sentence of the speech synthesised for a response.
ReplyCounts == {<<>>, <<1>>, <<2, 1>>}

\* A server that takes the next frame while the response to an earlier one is
\* still being sent: the new response starts at once.
FrameResult_concurrent(c, r) ==
    /\ pc[c] \in {"idle", "send"}
    /\ inq[c] # <<>>
    /\ Head(inq[c]).k = "bin"
    /\ inq' = [inq EXCEPT ![c] = Tail(@)]
    /\ LET w == send_agent_response(r)
       IN  IF pc[c] = "idle" THEN Respond(c, r)
           ELSE /\ work' = [work EXCEPT ![c].todo = w.todo \o @]
                /\ UNCHANGED pc
    /\ UNCHANGED <<wsState, closes, sessions, listening, listen_mode,
                   session_audio_buffers, active_sessions, sent, flushLog, connects,
                   disconnects, fired, everRegistered, framesSent, msgsSent,
                   delivered, closing, graph>>

\* The message loop reads a frame, its handlers flush it and the pipeline
\* call returns r: send_agent_response is entered (websocket.py:320-323,
\* main.py:237-242).
FrameResult(c, r) ==
    /\ pc[c] = "idle"
    /\ inq[c] # <<>>
    /\ Head(inq[c]).k = "bin"
    /\ inq' = [inq EXCEPT ![c] = Tail(@)]
    /\ Respond(c, r)
    /\ UNCHANGED <<wsState, closes, sessions, listening, listen_mode,
                   session_audio_buffers, active_sessions, sent, flushLog, connects,
                   disconnects, fired, everRegistered, framesSent, msgsSent,
                   delivered, closing, graph>>

\* The client sends one text message, before, between or while the responses
\* are sent.
ClientSendsOne(c, m) ==
    /\ msgsSent[c] = 0
    /\ ClientSendText(c, m)

NextReplies ==
    \E c \in Conns :
        \/ SessionSendFrame(c)
        \/ \E m \in ReplyMsgs : ClientSendsOne(c, m)
        \/ ClientClose(c)
        \/ \E r \in StreamResults : FrameResult(c, r)
        \/ \E counts \in ReplyCounts : GenSpeech(c, counts)
        \/ RecvText(c)
        \/ PipelineReturns(c)
        \/ SendStep(c)
        \/ LoopEnds(c)

SpecReplies == InitStream /\ [][NextReplies]_vars

\* ------------------------------------------------------- two connections
\* The server with two connections, each handled by a task of its own
\* (websockets.serve starts _handle_connection once per connection,
\* websocket.py:205-213): every client connects, says hello, sends one text
\* message and a few frames.
Peers == {"c1", "c2"}
PeerMsgs ==
    {ListenStartMsg(MANUAL), ListenStartMsg(REALTIME), DetectMsg("text", "hi"),
     FunctionCallMsg}

InitPeers ==
    /\ pc = [c \in Peers |-> "new"]
    /\ wsState = [c \in Peers |-> "unopened"]
    /\ closes = [c \in Peers |-> <<>>]
    /\ inq = [c \in Peers |-> <<>>]
    /\ sessions = {}
    /\ listening = [c \in Peers |-> FALSE]
    /\ listen_mode = [c \in Peers |-> NONE]
    /\ session_audio_buffers = EmptyDict
    /\ active_sessions = EmptyDict
    /\ work = [c \in Peers |-> NoWork]
    /\ sent = [c \in Peers |-> <<>>]
    /\ flushLog = [c \in Peers |-> <<>>]
    /\ connects = [c \in Peers |-> 0]
    /\ disconnects = [c \in Peers |-> 0]
    /\ fired = [c \in Peers |-> {}]
    /\ everRegistered = [c \in Peers |-> FALSE]
    /\ framesSent = [c \in Peers |-> 0]
    /\ msgsSent = [c \in Peers |-> 0]
    /\ delivered = [c \in Peers |-> FALSE]
    /\ closing = [c \in Peers |-> "no"]
    /\ graph = NoRun

NextPeers ==
    \E c \in Peers :
        \/ \E enabled \in AuthConfigs, pv \in VersionHeaders, auth \in AuthHeaders :
              handle_connection(c, enabled, pv, auth)
        \/ ClientHello(c, "ok")
        \/ wait_for_hello(c)
        \/ hello_timeout(c)
        \/ hello_closed(c)
        \/ \E m \in PeerMsgs : ClientSendsOne(c, m)
        \/ SessionSendFrame(c)
        \/ ClientClose(c)
        \/ RecvBinary(c)
        \/ RecvText(c)
        \/ LoopEnds(c)
        \/ PipelineReturns(c)
        \/ SendStep(c)

SpecPeers == InitPeers /\ [][NextPeers]_vars

\* ---------------------------------------------------------- the agent graph
\* A text is the sequence of its words; <<>> is the empty string.
Words(t) == {t[i] : i \in DOMAIN t}
CommandJson == "{\"device\": \"lamp\", \"action\": \"on\"}"
OtherJson == "{\"note\": 1}"

\* llm.py:197 and llm.py:226: the two fixed replies
DidNotCatch == <<"I", "didn't", "catch", "that.", "Could", "you", "please", "repeat?">>
HavingTrouble == <<"I'm", "having", "trouble", "right", "now.", "Please", "try",
                   "again", "later.">>

\* What the generation service answers: response.content of the chat
\* completion (llm.py:84-85), any text, the empty one included.
LLMReplies ==
    {<<>>, <<"it", "is", "noon">>, <<"sorry">>, <<"great">>, <<"warning">>,
     <<"done", "!">>, <<"sorry", "great">>, <<"ok", CommandJson>>,
     <<"ok", OtherJson>>}
LLMOutcomes ==
    {[raises |-> TRUE, text |-> <<>>]}
    \cup {[raises |-> FALSE, text |-> t] : t \in LLMReplies}

\* What the transcription service answers for a non-empty buffer:
\* ASRService.transcribe_audio_buffer catches every failure and answers ""
\* (asr_service.py:47-81).
ASRTexts == {"", "hi"}

\* LLMNode._extract_iot_commands (llm.py:101-129): the JSON objects of the
\* text that have a device and an action
extract_iot_commands(text) ==
    SelectSeq(text, LAMBDA w : w = CommandJson)

\* LLMNode._determine_emotion (llm.py:131-149)
determine_emotion(text) ==
    IF Words(text) \cap {"sorry", "apologize", "regret"} # {} THEN "apologetic"
    ELSE IF Words(text) \cap {"happy", "great", "excellent", "!"} # {} THEN "happy"
    ELSE IF Words(text) \cap {"important", "caution", "warning"} # {} THEN "serious"
    ELSE "neutral"

\* The keys of AgentState (graph.py:29-45)
AgentStateKeys ==
    {"session_id", "message_type", "audio_buffer", "transcription",
     "has_new_user_input", "response_text", "audio_response", "emotion",
     "iot_commands", "device_descriptors", "device_states", "abort",
     "abort_reason", "conversation_context", "error", "skip_tts"}

GraphTypes == {"text", "listen", "iot", "abort", "function_call"}
GraphData(type) ==
    CASE type = "text" -> {"", "hi"}
      [] type = "listen" -> {0, 2}
      [] type = "iot" -> {"descriptors", "states", "commands"}
      [] OTHER -> {NONE}

\* AgentGraph._init_state_from_message (graph.py:127-181); None is the
\* empty dictionary, both are falsy at graph.py:111.
init_state_from_message(message_type, data) ==
    LET state == [message_type |-> message_type, has_new_user_input |-> FALSE,
                  skip_tts |-> (message_type = "text")]
    IN  CASE message_type = "listen" ->
               Put(Put(state, "audio_buffer", data), "has_new_user_input", data > 0)
          [] message_type = "text" ->
               Put(Put(state, "transcription", data), "has_new_user_input", data # "")
          [] message_type = "iot" ->
               IF data = "descriptors" THEN Put(state, "device_descriptors", TRUE)
               ELSE IF data = "states" THEN Put(state, "device_states", TRUE)
               ELSE state
          [] message_type = "abort" ->
               Put(Put(state, "abort", TRUE), "abort_reason", "user_request")
          [] OTHER -> EmptyDict

\* ASRNode.process (asr.py:24-74); heard is the service's answer
ASRNode_process(state, heard) ==
    IF Get(state, "transcription", "") # ""
    THEN Put(state, "has_new_user_input", TRUE)
    ELSE IF Get(state, "audio_buffer", 0) = 0
    THEN Put(state, "transcription", "")
    ELSE Put(Put(Put(state, "transcription", heard), "audio_buffer", 0),
             "has_new_user_input", heard # "")

\* LLMNode.process (llm.py:173-231); out is the service's outcome
LLMNode_process(state, out) ==
    IF Get(state, "transcription", "") = ""
    THEN Put(Put(Put(state, "response_text", DidNotCatch), "emotion", "neutral"),
             "iot_commands", <<>>)
    ELSE IF out.raises
    THEN Put(Put(Put(Put(state, "response_text", HavingTrouble),
                     "emotion", "apologetic"), "iot_commands", <<>>),
             "error", TRUE)
    ELSE Put(Put(Put(state, "response_text", out.text),
                 "emotion", determine_emotion(out.text)),
             "iot_commands", extract_iot_commands(out.text))

\* IoTNode.__call__ (iot.py:191-207) with IoTNode.process (iot.py:75-145):
\* every extracted command has a device and an action, validate_command
\* (iot.py:46-73) accepts it
IoTNode_call(state) ==
    IF Has(state, "device_descriptors") THEN state
    ELSE IF Has(state, "device_states")
    THEN Put(state, "current_device_states", TRUE)
    ELSE Put(Put(state, "processed_iot_commands", Get(state, "iot_commands", <<>>)),
             "iot_command_results", Len(Get(state, "iot_commands", <<>>)))

\* TTSNode.process (tts.py:24-73)
TTSNode_process(state) ==
    IF Get(state, "skip_tts", FALSE) THEN state
    ELSE IF Get(state, "response_text", <<>>) = <<>>
    THEN Put(state, "tts_data", NONE)
    ELSE Put(Put(state, "tts_stream", TRUE), "tts_data", "data")

serverVars == <<pc, wsState, closes, inq, sessions, listening,
                listen_mode, session_audio_buffers, active_sessions, work, sent,
                flushLog, connects, disconnects, fired, everRegistered,
                framesSent, msgsSent, delivered, closing>>

\* AgentGraph.process_message up to the graph's entry point
\* (graph.py:96-122, entry point graph.py:84)
process_message(message_type, data) ==
    /\ graph.at = "start"
    /\ LET state == init_state_from_message(message_type, data)
       IN  graph' = IF state = EmptyDict
                    THEN [graph EXCEPT !.at = "end", !.type = message_type,
                                       !.data = data,
                                       !.result = [error |-> TRUE]]
                    ELSE [graph EXCEPT !.at = "asr", !.type = message_type,
                                       !.data = data, !.st = state]
    /\ UNCHANGED serverVars

asr_node(heard) ==
    /\ graph.at = "asr"
    /\ graph' = [graph EXCEPT !.at = "llm", !.st = ASRNode_process(graph.st, heard),
                              !.ran = Append(graph.ran, "asr")]
    /\ UNCHANGED serverVars

llm_node(out) ==
    /\ graph.at = "llm"
    /\ graph' = [graph EXCEPT !.at = "iot", !.st = LLMNode_process(graph.st, out),
                              !.ran = Append(graph.ran, "llm")]
    /\ UNCHANGED serverVars

iot_node ==
    /\ graph.at = "iot"
    /\ graph' = [graph EXCEPT !.at = "tts", !.st = IoTNode_call(graph.st),
                              !.ran = Append(graph.ran, "iot")]
    /\ UNCHANGED serverVars

tts_node ==
    /\ graph.at = "tts"
    /\ graph' = [graph EXCEPT !.at = "done", !.st = TTSNode_process(graph.st),
                              !.ran = Append(graph.ran, "tts")]
    /\ UNCHANGED serverVars

\* graph.ainvoke returns (graph.py:121-122): the library hands back the state,
\* with or without the keys the schema does not declare
ainvoke_returns(all_keys) ==
    /\ graph.at = "done"
    /\ graph' = [graph EXCEPT
                   !.at = "end",
                   !.result = IF all_keys THEN graph.st
                              ELSE [k \in (DOMAIN graph.st) \cap AgentStateKeys |->
                                      graph.st[k]]]
    /\ UNCHANGED serverVars

\* graph.ainvoke raises while a node is due (graph.py:123-125)
ainvoke_raises ==
    /\ graph.at \in {"asr", "llm", "iot", "tts"}
    /\ graph' = [graph EXCEPT !.at = "end", !.result = [error |-> TRUE]]
    /\ UNCHANGED serverVars

NextGraph ==
    \/ \E type \in GraphTypes : \E data \in GraphData(type) :
          process_message(type, data)
    \/ \E heard \in ASRTexts : asr_node(heard)
    \/ \E out \in LLMOutcomes : llm_node(out)
    \/ iot_node
    \/ tts_node
    \/ \E all_keys \in BOOLEAN : ainvoke_returns(all_keys)
    \/ ainvoke_raises

SpecGraph == InitStream /\ [][NextGraph]_vars

\* =================================================================== claims
\* ------------------------------------------------------------- handshake
\* The server closed the connection before the client did.
ServerClosed(c) == closes[c] # <<>>
\* No handler of the application ran for the connection and nothing was sent.
Untouched(c) ==
    /\ ~everRegistered[c]
    /\ c \notin sessions
    /\ connects[c] = 0
    /\ disconnects[c] = 0
    /\ fired[c] \cap {"message", "audio"} = {}
    /\ sent[c] = <<>>
\* The Protocol-Version header is present and differs from the server's.
VersionMismatch(pv) == pv # ABSENT /\ pv # StrOfInt(WS_PROTOCOL_VERSION)

\* C9: a connection whose Protocol-Version header is present and differs from
\* the server's version is closed with code 1002 "Invalid protocol version"
\* in the step that examines it, and neither then nor later is a session
\* created or a connect, message, audio or disconnect handler run for it.
C9_VersionMismatchClosed ==
    /\ [][\A c \in Conns, enabled \in AuthConfigs, pv \in VersionHeaders,
            auth \in AuthHeaders :
            (VersionMismatch(pv) /\ handle_connection(c, enabled, pv, auth)) =>
                /\ closes'[c] = <<CloseRec(CloseInvalidVersion, "Invalid protocol version")>>
                /\ wsState'[c] = "closed"
                /\ pc'[c] = "done"]_vars
    /\ [](\A c \in Conns :
            (ServerClosed(c) /\ closes[c][1].code = CloseInvalidVersion) =>
                (Untouched(c) /\ pc[c] = "done" /\ Len(closes[c]) = 1))
\* A connection was refused for its protocol version.
C9_Witness ==
    \E c \in Conns :
        /\ closes[c] = <<CloseRec(CloseInvalidVersion, "Invalid protocol version")>>
        /\ pc[c] = "done"
        /\ wsState[c] = "closed"

\* The closure codes the server uses for something else than a hello timeout.
OtherCloseCodes == {CloseInvalidVersion, CloseUnauthorized, CloseNormal}

\* C8: a connection that sends no hello within the timeout is closed with a
\* closure code of its own (the hello-timeout code), and no session for it is
\* in the registry at any time, the wait for the hello included.
C8_HelloTimeout ==
    \A c \in Conns :
        /\ pc[c] = "await_hello" => c \notin sessions
        /\ "hello_timeout" \in fired[c] =>
              /\ ~everRegistered[c]
              /\ ServerClosed(c)
              /\ closes[c][1].code \notin OtherCloseCodes

\* The server refused the connection during the handshake: the task ended
\* without the connect handler, and the server closed first.
Rejected(c) == pc[c] = "done" /\ connects[c] = 0 /\ ServerClosed(c)

\* C10: every handshake rejection (version, token, hello timeout, invalid
\* hello) closes the transport with a code and reason of its own and never
\* registers a session; no connect or disconnect notification fires for it.
C10_RejectionsNeverRegister ==
    \A c \in Conns :
        Rejected(c) =>
            /\ closes[c][1].code # CloseNormal
            /\ closes[c][1].reason # ""
            /\ ~everRegistered[c]
            /\ connects[c] = 0
            /\ disconnects[c] = 0

\* ------------------------------------------------------ buffering and flush
\* A flush: process_audio_buffer takes the session's buffer and clears it
\* (main.py:225-226).
\* The listen mode the application holds for the session.
SessMode(c) == InfoMode(active_sessions, c)
\* Frames buffered for the session.
Buffered(c) == IF Has(session_audio_buffers, c) THEN session_audio_buffers[c] ELSE <<>>
\* This step flushes the buffer of c.
Flushed(c) == flushLog'[c] # flushLog[c]
\* This step handles a binary frame that the session accepts.
FrameAccepted(c) == RecvBinary(c) /\ listening[c]
\* This step handles the text message m.
Handles(c, m) == RecvText(c) /\ Head(inq[c]).m = m
\* The client closed the connection (the server did not close first).
ClientGone(c) == wsState[c] = "closed" /\ closes[c] = <<>>
\* Frames the message loop has taken from the transport.
FramesHandled(c) ==
    framesSent[c] - Cardinality({i \in 1..Len(inq[c]) : inq[c][i].k = "bin"})
Ids(from, to) == [i \in 1..(to - from + 1) |-> from + i - 1]

StartThenFrames(c, mode) ==
    /\ msgsSent[c] = 1
    /\ listen_mode[c] = mode
    /\ ~ClientGone(c)
    /\ \/ Buffered(c) # <<>> /\ Buffered(c)[1] = 1
       \/ flushLog[c] # <<>> /\ flushLog[c][1].frames[1] = 1

\* C2: after listen:start{mode:auto} and then frames on one session, no flush
\* fires before the 10th frame is handled; from then on exactly one flush has
\* fired, it carries frames 1..10, and the session's buffer holds the frames
\* handled after the 10th (2 frames once 12 are handled).
C2_TwelveFrames ==
    \A c \in Conns :
        StartThenFrames(c, AUTO) =>
            LET h == FramesHandled(c)
            IN  IF h < AutoFlushThreshold
                THEN flushLog[c] = <<>>
                ELSE /\ flushLog[c] = <<[frames |-> Ids(1, AutoFlushThreshold), mode |-> AUTO]>>
                     /\ Has(session_audio_buffers, c)
                     /\ session_audio_buffers[c] = Ids(AutoFlushThreshold + 1, h)

\* C3: in a realtime session each frame of the client's sequence is accepted
\* and flushed alone: once frames 1..h are handled, h flushes have been made,
\* the i-th holding exactly frame i, and the session goes on listening with an
\* empty buffer.
C3_RealtimeEveryFrame ==
    \A c \in Conns :
        StartThenFrames(c, REALTIME) =>
            /\ flushLog[c] = [i \in 1..FramesHandled(c) |->
                                [frames |-> <<i>>, mode |-> REALTIME]]
            /\ c \in sessions
            /\ listening[c]
            /\ Buffered(c) = <<>>

\* C4: for a registered session in manual mode, only listen:stop flushes the
\* buffer: no step that handles a frame, listen:detect, iot, function_call or
\* any other message does, and the flush at listen:stop carries the buffer as
\* it stands, in arrival order.
C4_ManualOnlyStop ==
    [][\A c \in Conns :
        (c \in sessions /\ SessMode(c) = MANUAL /\ Flushed(c)) =>
            /\ Handles(c, ListenStopMsg)
            /\ flushLog'[c] = Append(flushLog[c],
                                     [frames |-> Buffered(c), mode |-> MANUAL])]_vars

\* ------------------------------------------------------ response streaming
\* TTS stop messages among the units of a sequence.
NStops(seq) == Cardinality({i \in 1..Len(seq) : seq[i] = TtsStop})
\* Frames buffered for the session after this step.
BufferedNext(c) ==
    IF Has(session_audio_buffers', c) THEN session_audio_buffers'[c] ELSE <<>>
\* What the session was sent, followed by what the running response is still
\* to send.
Plan(c) == sent[c] \o work[c].todo
InSeq(x, seq) == \E i \in 1..Len(seq) : seq[i] = x

C7_MarkerBeforeFrames ==
    \A c \in Conns : \A i \in 1..Len(sent[c]) :
        sent[c][i].t = "audio" =>
            \E j \in 1..(i - 1) :
                /\ sent[c][j] = TtsSentence(sent[c][i].s)
                /\ \A k \in (j + 1)..(i - 1) : sent[c][k].t # "tts_sentence"
\* A response of two sentences was streamed to its end, frames included.
C7_Witness ==
    \E c \in Conns :
        /\ InSeq(AudioOut(1, 1), sent[c])
        /\ InSeq(AudioOut(2, 2), sent[c])
        /\ sent[c][Len(sent[c])] = TtsStop

\* ------------------------------------------------------------- disconnects
\* C11: however an admitted session goes away (the client closes while the
\* session is idle, listening, in a pipeline call or sending a response, or
\* close_session is called), the step that takes it out of the registry
\* deletes its buffer and its entry of active_sessions and notifies the
\* application, and that notification happens once: it never happens without
\* the removal, never a second time, and a connection task that has ended or
\* a close_session that has returned leaves the session removed and notified
\* exactly once.
C11_DisconnectOnce ==
    [][\A c \in Conns :
          /\ (c \in sessions /\ c \notin sessions')
                => /\ disconnects'[c] = disconnects[c] + 1
                   /\ ~Has(session_audio_buffers', c)
                   /\ ~Has(active_sessions', c)
          /\ disconnects'[c] # disconnects[c] => (c \in sessions /\ c \notin sessions')
          /\ disconnects'[c] <= 1
          /\ (pc'[c] = "done" \/ closing'[c] = "returned")
                => (c \notin sessions' /\ disconnects'[c] = 1)]_vars
\* Both cleanup paths ran: close_session returned and the connection task
\* ended, after the client had sent frames and a text input.
C11_Witness ==
    \E c \in Conns :
        /\ closing[c] = "returned" /\ pc[c] = "done"
        /\ disconnects[c] = 1
        /\ framesSent[c] > 0 /\ msgsSent[c] > 0

\* ------------------------------------------------------------- text input
\* C12: handling listen:detect with source "text" starts the pipeline call
\* with the text of the message and touches nothing of the audio path: the
\* buffer, what was flushed, the listening flag and the listen mode (the
\* transport's and the application's) are as before, whether or not the
\* session is listening.
C12_DetectTextBypassesBuffer ==
    [][\A c \in Conns :
          Handles(c, DetectMsg("text", "hi"))
            => /\ pc'[c] = "pipeline"
               /\ work'[c] = Calling("text", "hi")
               /\ UNCHANGED <<session_audio_buffers, flushLog, listening,
                              listen_mode, active_sessions, sessions>>]_vars
\* The text input of a listening session with frames in its buffer is in the
\* pipeline.
C12_Witness ==
    \E c \in Conns :
        /\ pc[c] = "pipeline" /\ work[c] = Calling("text", "hi")
        /\ listening[c] /\ Buffered(c) # <<>>

\* ------------------------------------------------------- frames kept
\* C13: when listen:start is handled for a session whose buffer holds
\* frames, those frames are flushed by that step: they are handed to the
\* pipeline before the buffer is reset, not dropped.
C13_StartFlushesBuffered ==
    [][\A c \in Conns, mode \in {AUTO, MANUAL, REALTIME, ABSENT} :
          (Handles(c, ListenStartMsg(mode)) /\ Buffered(c) # <<>>)
            => /\ Flushed(c)
               /\ flushLog'[c][Len(flushLog'[c])].frames = Buffered(c)]_vars

\* --------------------------------------------------------- required fields
\* C14: a message that lacks a field its type requires is not dispatched:
\* handling listen:start without a mode calls no handler and leaves the
\* listening flag, the listen mode, the buffer and the session info as they
\* were.
C14_RequiredFields ==
    [][\A c \in Conns :
          Handles(c, ListenStartMsg(ABSENT))
            => UNCHANGED <<listening, listen_mode, session_audio_buffers,
                           active_sessions, fired>>]_vars

\* ----------------------------------------------------------- malformed text
\* This step handles a text unit that is no message.
HandlesMalformed(c) == RecvText(c) /\ Head(inq[c]).v \in MalformedKinds

\* C15: a text unit that is no message (invalid JSON, JSON that is no object,
\* an object without a type) is dropped with a warning and nothing else: no
\* handler is called, the session stays registered with its connection open,
\* its listening state, buffer and session info are unchanged, nothing is sent
\* and the task goes back to reading.
C15_MalformedDropped ==
    [][\A c \in Conns :
          HandlesMalformed(c)
            => /\ pc'[c] = "idle"
               /\ fired'[c] = fired[c] \cup {"invalid_message"}
               /\ UNCHANGED <<sessions, wsState, closes, listening, listen_mode,
                              session_audio_buffers, active_sessions, sent,
                              flushLog, connects, disconnects>>]_vars

\* ------------------------------------------------------ one response at a time
\* The units of seq can be the output of responses sent one after the other:
\* open says that a TTS start was sent and its TTS stop was not, s and f are
\* the last sentence marker and the last frame of that sentence.  Between a
\* TTS start and its stop come only the markers 1, 2, .. and, after each
\* marker, the frames 1, 2, .. of its sentence; markers, frames and stops
\* come nowhere else.
RECURSIVE OneAtATime(_, _, _, _)
OneAtATime(seq, open, s, f) ==
    IF seq = <<>> THEN TRUE
    ELSE LET x == Head(seq)
         IN  IF open
             THEN CASE x = TtsStop -> OneAtATime(Tail(seq), FALSE, 0, 0)
                    [] x = TtsSentence(s + 1) -> OneAtATime(Tail(seq), TRUE, s + 1, 0)
                    [] x = AudioOut(s, f + 1) /\ s > 0 -> OneAtATime(Tail(seq), TRUE, s, f + 1)
                    [] OTHER -> FALSE
             ELSE CASE x = TtsStart -> OneAtATime(Tail(seq), TRUE, 0, 0)
                    [] x.t \in {"tts_stop", "tts_sentence", "audio"} -> FALSE
                    [] OTHER -> OneAtATime(Tail(seq), FALSE, 0, 0)

\* C16: whatever frames and text messages arrive while responses are
\* produced, what a session is sent is the output of one response after the
\* other: the TTS start, markers, frames and TTS stop of one result are never
\* mixed with the messages of another.
C16_OneResponseAtATime ==
    \A c \in Conns : OneAtATime(sent[c], FALSE, 0, 0)
\* Two synthesised responses were sent in full, the second one with frames,
\* and a text response as well.
C16_Witness ==
    \E c \in Conns :
        /\ NStops(sent[c]) = 2
        /\ sent[c][Len(sent[c])] = TtsStop
        /\ InSeq(AudioOut(2, 1), sent[c])
        /\ InSeq(Out("text_response", 0, 0), sent[c])

\* ------------------------------------------------------- empty responses
\* A message that ends a response for the client: the TTS stop or, for a
\* text input, the text response.
EndOfResponse == {TtsStop, Out("text_response", 0, 0)}
\* This step ends the handler that sent the response to a text input, or
\* that had nothing to send for it.
ResponseEnds(c) ==
    /\ \/ PipelineReturns(c) /\ work[c].after = "text"
       \/ SendStep(c)
    /\ pc'[c] = "idle"

\* C17: a result without output text (no response_text, or only an error)
\* gets no TTS start, marker or frame, and no handler goes back to reading
\* after a pipeline result was routed to send_agent_response without the
\* session, its transport open, having been sent a message that ends the
\* response.
C17_EmptyResponseEnds ==
    [][\A c \in Conns :
          /\ (PipelineReturns(c) /\ pc'[c] = "send" /\ ~work'[c].r.response_text)
                => \A i \in 1..Len(work'[c].todo) :
                      work'[c].todo[i].t \notin {"tts_start", "tts_sentence", "audio"}
          /\ (ResponseEnds(c) /\ wsState[c] = "open" /\ c \in sessions)
                => sent'[c][Len(sent'[c])] \in EndOfResponse]_vars

\* ------------------------------------------------------ pipeline failures
\* This step starts a pipeline invocation for the session: buffered audio is
\* flushed, or the call for a text input is awaited.
PipelineInvoked(c) ==
    \/ Flushed(c)
    \/ pc[c] = "idle" /\ pc'[c] = "pipeline" /\ work'[c].after = "text"

C19_FailedSendCleansUpOnce ==
    [][\A c \in Conns :
          /\ disconnects'[c] <= 1
          /\ (SendStep(c) /\ wsState[c] # "open")
                => /\ send_message(Cur, c, Head(work[c].todo)).ret = "False"
                   /\ pc'[c] # "done"
                   /\ sent'[c] = sent[c]
                   /\ c \notin sessions'
                   /\ disconnects'[c] = 1
                   /\ c \in sessions
                        => /\ ~Has(session_audio_buffers', c)
                           /\ ~Has(active_sessions', c)
                           /\ disconnects[c] = 0
                   /\ c \notin sessions
                        => UNCHANGED <<disconnects, session_audio_buffers,
                                       active_sessions, fired>>]_vars
\* The client went away while frames were being sent: the sends that were
\* left failed, and the connection task has ended.
C19_Witness ==
    \E c \in Conns :
        /\ pc[c] = "done"
        /\ disconnects[c] = 1
        /\ closes[c] = <<>>
        /\ sent[c][Len(sent[c])] = AudioOut(1, 1)

\* ------------------------------------------------- abort during the pipeline
\* An abort of the client waits unread in the receive queue.
AbortWaiting(c) == \E i \in 1..Len(inq[c]) : inq[c][i].m = AbortMsg

\* C20: an abort that arrives while the pipeline call of a text input is in
\* progress is handled without waiting for the call: when the call returns
\* no abort is still waiting unread, or else the output of the call is
\* discarded and none of it is sent.
C20_AbortDuringPipeline ==
    [][\A c \in Conns :
          (PipelineReturns(c) /\ work[c].after = "text" /\ AbortWaiting(c))
            => (pc'[c] = "idle" /\ work'[c] = NoWork)]_vars

GenerationRan == graph.at = "iot" /\ graph.ran # <<>> /\ graph.ran[Len(graph.ran)] = "llm"

\* C22: the state LLMNode.process returns has a non-empty response_text and
\* an emotion, whatever the input state: empty transcription, service
\* success, service error.
C22_ResponseNeverEmpty ==
    GenerationRan
      => /\ Has(graph.st, "response_text") /\ graph.st.response_text # <<>>
         /\ Has(graph.st, "emotion") /\ graph.st.emotion # ""

\* ------------------------------------------------------------ text runs
Stages == <<"asr", "llm", "iot", "tts">>

\* graph.ainvoke returned the state of a run started by
\* process_text_input on a non-empty text
TextRunReturned ==
    /\ graph.at = "end" /\ graph.type = "text" /\ graph.data # ""
    /\ graph.ran = Stages

\* C23: process_text_input on a non-empty text returns a result with a
\* non-empty response_text and an emotion, the text being the transcription
\* and the four stages having run once each in order, whether or not the
\* services fail (stated for the runs whose graph.ainvoke returns).
C23_TextInputAnswered ==
    TextRunReturned
      => /\ Has(graph.result, "transcription")
         /\ graph.result.transcription = graph.data
         /\ Has(graph.result, "response_text") /\ graph.result.response_text # <<>>
         /\ Has(graph.result, "emotion") /\ graph.result.emotion # ""

\* What does hold of such a run: the text is the transcription, and the
\* response_text is the service's reply, the fixed apology when it raised.
TextRunShape ==
    /\ (graph.type = "text" /\ graph.data # "" /\ graph.at # "end")
         => /\ \E n \in 0..4 : graph.ran = SubSeq(Stages, 1, n)
            /\ graph.st.transcription = graph.data
    /\ TextRunReturned
         => /\ graph.result.transcription = graph.data
            /\ graph.result.response_text \in LLMReplies \cup {HavingTrouble}
            /\ graph.result.emotion # ""
            /\ graph.result.skip_tts /\ ~Has(graph.result, "tts_data")

\* What send_agent_response tests of a returned dictionary (main.py:253-306)
Tested(result) ==
    Result(Get(result, "transcription", "") # "",
           Get(result, "processed_iot_commands", <<>>) # <<>>,
           Get(result, "emotion", "") # "",
           FALSE,
           Get(result, "skip_tts", FALSE),
           Get(result, "response_text", <<>>) # <<>>,
           FALSE)

\* The results of a text run are the ones the server's pipeline call draws.
TextRunResults ==
    (graph.at = "end" /\ graph.type = "text")
      => Tested(graph.result) \in TextResults(graph.data)

\* ------------------------------------------------------------ listen:start
\* C24: handling listen:start{mode} leaves the session listening in the mode
\* of the message with an empty buffer, in the transport's record and in the
\* application's, whatever the mode and whatever the session's state before.
C24_StartSetsState ==
    [][\A c \in Conns, mode \in {AUTO, MANUAL, REALTIME} :
          Handles(c, ListenStartMsg(mode))
            => /\ listening'[c] /\ listen_mode'[c] = mode
               /\ Has(session_audio_buffers', c) /\ session_audio_buffers'[c] = <<>>
               /\ Has(active_sessions', c)
               /\ active_sessions'[c].listening = "true"
               /\ active_sessions'[c].listen_mode = mode
               /\ pc'[c] = "idle"]_vars
\* A session that had taken frames in auto mode was started again in manual
\* mode.
C24_Witness ==
    \E c \in Conns :
        /\ c \in sessions /\ pc[c] = "idle" /\ inq[c] = <<>>
        /\ msgsSent[c] = 2 /\ FramesHandled(c) >= 1 /\ "audio" \in fired[c]
        /\ listening[c] /\ listen_mode[c] = MANUAL /\ SessMode(c) = MANUAL
        /\ Buffered(c) = <<>> /\ flushLog[c] = <<>>

C26_FramesOnlyWhileListening ==
    [][\A c \in Conns :
          /\ (RecvBinary(c) /\ ~listening[c])
               => /\ UNCHANGED <<session_audio_buffers, flushLog, fired,
                                 active_sessions, sent, listening>>
                  /\ pc'[c] = "idle"
          /\ (BufferedNext(c) # Buffered(c) /\ BufferedNext(c) # <<>>)
               => /\ RecvBinary(c) /\ listening[c]
                  /\ BufferedNext(c) = Append(Buffered(c), Head(inq[c]).id)
          /\ Flushed(c)
               => \A i \in 1..Len(flushLog'[c][Len(flushLog'[c])].frames) :
                     LET f == flushLog'[c][Len(flushLog'[c])].frames[i]
                     IN  \/ InSeq(f, Buffered(c))
                         \/ RecvBinary(c) /\ listening[c] /\ f = Head(inq[c]).id
          /\ (listening'[c] /\ ~listening[c])
               => \E mode \in {AUTO, MANUAL, REALTIME} : Handles(c, ListenStartMsg(mode))
          /\ Handles(c, ListenStopMsg) => ~listening'[c]]_vars
\* Two frames were handled after a listen:start without a mode, which the
\* application took for a start in auto mode: none was buffered.
C26_Witness ==
    \E c \in Conns :
        /\ c \in sessions /\ msgsSent[c] = 1 /\ inq[c] = <<>>
        /\ SessMode(c) = AUTO /\ ~listening[c]
        /\ FramesHandled(c) >= 2
        /\ "audio" \notin fired[c] /\ Buffered(c) = <<>> /\ flushLog[c] = <<>>

\* ------------------------------------------------------- frames and flushes
RECURSIVE FlushedFrames(_)
\* The frames of the flushes of a log, in the order they were flushed.
FlushedFrames(log) ==
    IF log = <<>> THEN <<>> ELSE log[1].frames \o FlushedFrames(Tail(log))
\* Frames are numbered in the order the client sent them.
InArrivalOrder(seq) == \A i, j \in 1..Len(seq) : i < j => seq[i] < seq[j]
IsPrefix(a, b) == Len(a) <= Len(b) /\ SubSeq(b, 1, Len(a)) = a

\* C27: flushing neither loses, duplicates nor reorders frames: the frames
\* flushed so far followed by the frames buffered are in arrival order without
\* repetition; an accepted frame is in the buffer or in a flush when its
\* handling ends; a flush takes the whole buffer, with the frame being handled
\* when there is one, in one step and leaves none buffered; and buffered
\* frames leave the buffer only by a flush or by an abort, a listen:start or
\* the end of the session.
C27_FlushKeepsFrames ==
    [][\A c \in Conns :
          /\ InArrivalOrder(FlushedFrames(flushLog[c]) \o Buffered(c))
          /\ FrameAccepted(c)
               => IF Flushed(c)
                  THEN flushLog'[c] = Append(flushLog[c],
                          [frames |-> Append(Buffered(c), Head(inq[c]).id),
                           mode |-> SessMode(c)])
                  ELSE BufferedNext(c) = Append(Buffered(c), Head(inq[c]).id)
          /\ Flushed(c)
               => /\ Len(flushLog'[c]) = Len(flushLog[c]) + 1
                  /\ IsPrefix(flushLog[c], flushLog'[c])
                  /\ IsPrefix(Buffered(c), flushLog'[c][Len(flushLog'[c])].frames)
                  /\ BufferedNext(c) = <<>>
          /\ ~IsPrefix(Buffered(c), BufferedNext(c))
               => \/ Flushed(c)
                  \/ Handles(c, AbortMsg)
                  \/ \E mode \in {AUTO, MANUAL, REALTIME, ABSENT} :
                        Handles(c, ListenStartMsg(mode))
                  \/ c \in sessions /\ c \notin sessions']_vars
\* Three frames accepted in manual mode left the buffer in one flush, in the
\* order they came.
C27_Witness ==
    \E c \in Conns :
        /\ flushLog[c] = <<[frames |-> Ids(1, 3), mode |-> MANUAL]>>
        /\ FramesHandled(c) = 3 /\ Buffered(c) = <<>>

\* ------------------------------------------------- the shape of a response
NStarts(seq) == Cardinality({i \in 1..Len(seq) : seq[i] = TtsStart})
\* The units of the segments of a synthesised response: for each sentence its
\* marker, then its frames in order.
RECURSIVE Segments(_, _)
Segments(counts, i) ==
    IF i > Len(counts) THEN <<>>
    ELSE <<TtsSentence(i)>> \o [f \in 1..counts[i] |-> AudioOut(i, f)]
         \o Segments(counts, i + 1)

\* C28: a response with output text and synthesis sends one TTS start, then
\* for each segment its sentence_start and its frames in order, then one TTS
\* stop: the units are sent one by one in that order while the session is
\* registered, markers and frames are sent only between a TTS start and its
\* stop, and when the handler of the response returns with the session still
\* registered the TTS start has its one TTS stop.  (Stops sent for an abort
\* are set apart: the sessions looked at have handled none.)
C28_ResponseShape ==
    [][\A c \in Conns :
          /\ "abort" \notin fired[c] => OneAtATime(sent[c], FALSE, 0, 0)
          /\ \A counts \in SpeechCounts :
                GenSpeech(c, counts)
                  => /\ sent[c][Len(sent[c])] = TtsStart \/ c \notin sessions
                     /\ work'[c].todo = Segments(counts, 1) \o <<TtsStop>>
          /\ (SendStep(c) /\ c \in sessions')
                => /\ sent'[c] = Append(sent[c], Head(work[c].todo))
                   /\ Tail(work[c].todo) # <<>> => work'[c].todo = Tail(work[c].todo)
          /\ (SendStep(c) /\ c \notin sessions') => sent'[c] = sent[c]
          /\ (pc[c] = "send" /\ pc'[c] = "idle" /\ c \in sessions'
              /\ "abort" \notin fired[c])
                => /\ NStarts(sent'[c]) = NStops(sent'[c])
                   /\ (work[c].r.response_text /\ ~work[c].r.skip_tts)
                        => sent'[c][Len(sent'[c])] \in {TtsStop, Out("listen_start", 0, 0)}]_vars
\* A response of two sentences with three and one frames was sent in full to
\* a session that is still registered.
C28_Witness ==
    \E c \in Conns :
        /\ c \in sessions /\ pc[c] = "idle" /\ delivered[c]
        /\ \E n \in 1..Len(sent[c]) :
              SubSeq(sent[c], n, Len(sent[c]))
                = <<TtsStart>> \o Segments(<<3, 1>>, 1) \o <<TtsStop>>

\* ---------------------------------------------------------------- admission
\* What does hold of the order of a handshake: the connect handler runs at
\* most once for a connection and only after the server hello was sent, and
\* the message and audio handlers run only after the connect handler.
ConnectAfterHello ==
    \A c \in Conns :
        /\ connects[c] <= 1
        /\ connects[c] = 1 => (sent[c] # <<>> /\ sent[c][1] = HelloOut)
        /\ (fired[c] \cap {"message", "audio"} # {}) => connects[c] = 1

\* C29: the server hello is sent before the connect handler runs, the connect
\* handler runs exactly once per admitted session, no message or audio
\* handler runs for a session before it, and a session is in the registry
\* only once the client's valid hello was received, never while the hello is
\* awaited.
C29_RegisteredAtAdmission ==
    /\ ConnectAfterHello
    /\ \A c \in Conns :
          /\ c \in sessions => pc[c] \notin {"new", "await_hello"}
          /\ (pc[c] = "idle" /\ c \in sessions) => connects[c] = 1

\* ----------------------------------------------------------- authentication
\* The Authorization header is "Bearer " followed by the configured secret.
BearerSecret(auth) == auth = "Bearer secret"
\* What the step that examines the headers of connection c does with the
\* token when authentication is enabled or not.
AuthOutcome(c, enabled, auth) ==
    IF enabled /\ ~BearerSecret(auth)
    THEN /\ closes'[c] = <<CloseRec(CloseUnauthorized, "Unauthorized")>>
         /\ wsState'[c] = "closed" /\ pc'[c] = "done"
         /\ c \notin sessions' /\ ~everRegistered'[c]
    ELSE /\ c \in sessions' /\ pc'[c] = "await_hello"
         /\ closes'[c] = <<>> /\ wsState'[c] = "open"
\* A connection closed as unauthorized never had a session or a handler run.
UnauthorizedUntouched ==
    \A c \in Conns :
        (ServerClosed(c) /\ closes[c][1].code = CloseUnauthorized)
          => (Untouched(c) /\ pc[c] = "done" /\ Len(closes[c]) = 1)

\* C30 as stated: with authentication enabled a connection goes on to
\* admission only with the header "Bearer <secret>", and every other
\* connection is closed with the unauthorized code before a session is
\* created; with authentication disabled the header is ignored.
C30_AuthGateEveryConnection ==
    [][\A c \in Conns, enabled \in AuthConfigs, pv \in VersionHeaders,
          auth \in AuthHeaders :
          handle_connection(c, enabled, pv, auth) => AuthOutcome(c, enabled, auth)]_vars

\* C30, amended: the same for the connections whose Protocol-Version header
\* is absent or equal to the server's version; the version is examined first,
\* and a connection with another version is closed for its version whatever
\* its token.
C30_AuthGate ==
    /\ [][\A c \in Conns, enabled \in AuthConfigs, pv \in VersionHeaders,
            auth \in AuthHeaders :
            (~VersionMismatch(pv) /\ handle_connection(c, enabled, pv, auth))
              => AuthOutcome(c, enabled, auth)]_vars
    /\ []UnauthorizedUntouched
\* A connection was refused as unauthorized.
C30_Witness ==
    \E c \in Conns :
        /\ closes[c] = <<CloseRec(CloseUnauthorized, "Unauthorized")>>
        /\ pc[c] = "done" /\ wsState[c] = "closed" /\ ~everRegistered[c]

\* ------------------------------------------------- iot and function_call
\* What does hold: an iot message of a registered session is passed to the
\* pipeline and leaves the buffer, the listening flag and the listen mode as
\* they were; the session stays registered.
IotForwarded ==
    [][\A c \in Conns, key \in {"descriptors", "states", "commands"} :
          (c \in sessions /\ Handles(c, IotMsg(key)))
            => /\ pc'[c] = "pipeline" /\ work'[c].after = "iot"
               /\ c \in sessions'
               /\ UNCHANGED <<session_audio_buffers, listening, listen_mode,
                              flushLog, sent>>]_vars

\* C31: handling an iot message (descriptors, states, commands) or a
\* function_call message passes it to the pipeline and leaves the session's
\* buffer, listening flag and listen mode unchanged; the session is still
\* registered afterwards.
C31_NonAudioForwarded ==
    [][\A c \in Conns :
          (c \in sessions
           /\ \/ \E key \in {"descriptors", "states", "commands"} : Handles(c, IotMsg(key))
              \/ Handles(c, FunctionCallMsg))
            => /\ pc'[c] = "pipeline"
               /\ c \in sessions'
               /\ UNCHANGED <<session_audio_buffers, listening, listen_mode>>]_vars

\* ------------------------------------------------------------ empty flushes
\* This step handles a message that asks for a flush while nothing is
\* buffered for the session: listen:stop, or a wake-word listen:detect.
EmptyFlushAsked(c) ==
    /\ Buffered(c) = <<>>
    /\ \/ Handles(c, ListenStopMsg)
       \/ Handles(c, DetectMsg("audio", "hi"))

\* C32: a flush asked for while the buffer is empty is a no-op: no flush is
\* made and the pipeline is not called, nothing is sent, no error ends the
\* task, the session stays registered, and nothing of its state changes but
\* the listening flag (the transport's and the application's) at listen:stop.
C32_EmptyFlushNoOp ==
    [][\A c \in Conns :
          EmptyFlushAsked(c)
            => /\ pc'[c] = "idle"
               /\ UNCHANGED <<flushLog, sent, sessions, wsState, closes,
                              session_audio_buffers, listen_mode, disconnects>>
               /\ SessMode(c)' = SessMode(c)
               /\ IF Handles(c, ListenStopMsg)
                  THEN /\ ~listening'[c]
                       /\ Has(active_sessions, c)
                            => active_sessions' = [active_sessions EXCEPT
                                                     ![c].listening = "false"]
                  ELSE UNCHANGED <<listening, active_sessions>>]_vars
\* A listening session in manual mode was stopped before any frame came.
C32_Witness ==
    \E c \in Conns :
        /\ c \in sessions /\ pc[c] = "idle" /\ msgsSent[c] = 2 /\ inq[c] = <<>>
        /\ framesSent[c] = 0
        /\ ~listening[c] /\ listen_mode[c] = MANUAL
        /\ active_sessions[c].listening = "false" /\ SessMode(c) = MANUAL
        /\ Has(session_audio_buffers, c) /\ flushLog[c] = <<>>
        /\ sent[c] = <<HelloOut>>

\* ------------------------------------------------------- errors are scoped
\* What the server and the application hold for connection d.
PeerRecord(d) ==
    [registered |-> d \in sessions,
     listening |-> listening[d], listen_mode |-> listen_mode[d],
     has_buffer |-> Has(session_audio_buffers, d), buffer |-> Buffered(d),
     has_info |-> Has(active_sessions, d),
     info |-> IF Has(active_sessions, d) THEN active_sessions[d] ELSE EmptyInfo,
     pc |-> pc[d], transport |-> wsState[d], closes |-> closes[d],
     sent |-> sent[d], unread |-> inq[d], work |-> work[d]]
\* This step ends the task of connection c, takes its session out of the
\* registry, or logs a warning for it: a handshake refused, an exception out
\* of a handler, a send that failed, a transport that closed.
Fails(c) ==
    \/ pc[c] # "done" /\ pc'[c] = "done"
    \/ c \in sessions /\ c \notin sessions'
    \/ fired'[c] \ fired[c] \notin {{}, {"message"}, {"audio"}}

\* C33: an error in the handling of one connection stays with it: the step
\* in which it happens leaves the registry entry, the listening state, the
\* buffer, the session info, the transport and the task of every other
\* connection as they were, and after it the server still accepts
\* connections and the tasks of the other connections still take their
\* units.
C33_ErrorsScoped ==
    /\ [][\A c \in Peers, d \in Peers :
            (c # d /\ Fails(c)) => PeerRecord(d)' = PeerRecord(d)]_vars
    /\ [](\A c \in Peers, d \in Peers :
            (c # d /\ pc[c] = "done")
              => /\ pc[d] = "new" => ENABLED handle_connection(d, FALSE, ABSENT, "")
                 /\ (pc[d] = "idle" /\ inq[d] # <<>> /\ Head(inq[d]).k = "text")
                      => ENABLED RecvText(d))
\* The task of c1 ended on an exception out of the message handler; c2 is
\* registered and listening with a frame in its buffer.
C33_Witness ==
    /\ pc["c1"] = "done" /\ disconnects["c1"] = 1 /\ closes["c1"] # <<>>
    /\ msgsSent["c1"] = 1 /\ sent["c1"] = <<HelloOut>> /\ flushLog["c1"] = <<>>
    /\ "c2" \in sessions /\ listening["c2"] /\ listen_mode["c2"] = MANUAL
    /\ Len(Buffered("c2")) = 1 /\ pc["c2"] = "idle"

\* ------------------------------------------------------- flushes answered
\* C34: a flush of a non-empty buffer on a session whose transport is open
\* is followed by the response for it, ending with a TTS stop, and the
\* session is still registered and taking messages once the flush is done:
\* the step that flushes hands the frames to the pipeline, so that the task
\* is in the pipeline call or sending, with the session registered and the
\* transport open.
C34_FlushAnswered ==
    [][\A c \in Conns :
          (c \in sessions /\ wsState[c] = "open" /\ Flushed(c))
            => /\ c \in sessions'
               /\ wsState'[c] = "open"
               /\ pc'[c] \in {"pipeline", "send", "gen"}]_vars

\* --------------------------------------------------- the two listen records
\* The listen messages a client sends.
ListenMsgs ==
    {ListenStartMsg(mode) : mode \in {AUTO, MANUAL, REALTIME, ABSENT}}
    \cup {ListenStopMsg, DetectMsg("text", "hi"), DetectMsg("audio", "hi")}
\* The transport's record of the session (ClientSession.listening and
\* listen_mode) and the application's (active_sessions[id]) say the same.
RecordsAgree(c) ==
    /\ Has(active_sessions, c)
    /\ (active_sessions[c].listening = "true") <=> listening[c]
    /\ SessMode(c) = listen_mode[c]

\* C35: after any listen message is handled, a listen:start without a mode
\* included, the transport's and the application's record of the session
\* agree on the listening flag and on the listen mode.
C35_RecordsAgree ==
    [][\A c \in Conns, m \in ListenMsgs :
          (Handles(c, m) /\ c \in sessions') => RecordsAgree(c)']_vars

\* What does hold: the records agree after every listen message that is not a
\* listen:start without a mode, handled when they agreed before.
RecordsAgreeWithMode ==
    [][\A c \in Conns, m \in ListenMsgs \ {ListenStartMsg(ABSENT)} :
          (Handles(c, m) /\ c \in sessions' /\ RecordsAgree(c))
            => RecordsAgree(c)']_vars

\* ---------------------------------------------------- what listen:start keeps
\* C36: handling listen:start changes the listening flag, the listen mode and
\* the buffer only: the client id and device id stored at connect and the
\* device descriptors and states stored by earlier iot messages stay in the
\* session's info.
C36_StartKeepsInfo ==
    [][\A c \in Conns, mode \in {AUTO, MANUAL, REALTIME, ABSENT} :
          (Handles(c, ListenStartMsg(mode)) /\ Has(active_sessions, c))
            => /\ Has(active_sessions', c)
               /\ active_sessions'[c].ids = active_sessions[c].ids
               /\ active_sessions'[c].descriptors = active_sessions[c].descriptors
               /\ active_sessions'[c].states = active_sessions[c].states]_vars

\* ------------------------------------------------- disconnect after connect
\* C37: the disconnect handler runs for a connection only if the connect
\* handler ran for it before; a connection that fails once its hello was
\* received, before or while the server hello is sent, gets no disconnect
\* notification.
C37_DisconnectOnlyAfterConnect ==
    \A c \in Conns : disconnects[c] >= 1 => connects[c] >= 1

\* ------------------------------------------------------ state after disconnect
\* C38: once the disconnect handler has run for a session, the application
\* holds no buffer and no session info for its id in any later state: no
\* message or frame of that connection still queued or being handled creates
\* them again.
C38_NoStateAfterDisconnect ==
    \A c \in Conns :
        disconnects[c] >= 1
          => (~Has(session_audio_buffers, c) /\ ~Has(active_sessions, c))

SpeechUnits == {"tts_start", "tts_sentence", "audio", "tts_stop"}
NOfType(seq, types) == Cardinality({i \in 1..Len(seq) : seq[i].t \in types})
\* The response being sent is the one to a direct text input that has output
\* text.
TextReply(w) == w.r.skip_tts /\ w.r.response_text

\* C40: for a result with skip_tts and output text, send_agent_response plans
\* exactly one text_response and no TTS start, marker, frame or TTS stop;
\* each of its sends adds to what the session was sent the next planned unit
\* and nothing else (the unit itself while the session is registered with
\* its transport open), the plan grows by at most the closing listen:start,
\* and the handler never goes on to the speech synthesis.
C40_TextResponseOnly ==
    [][\A c \in Conns :
          /\ (PipelineReturns(c) /\ work[c].after = "text" /\ TextReply(work'[c]))
                => /\ pc'[c] = "send"
                   /\ NOfType(work'[c].todo, {"text_response"}) = 1
                   /\ NOfType(work'[c].todo, SpeechUnits) = 0
                   /\ work'[c].todo[Len(work'[c].todo)] = Out("text_response", 0, 0)
          /\ (SendStep(c) /\ TextReply(work[c]))
                => /\ pc'[c] \in {"send", "idle"}
                   /\ sent'[c] \in {sent[c], Append(sent[c], Head(work[c].todo))}
                   /\ (c \in sessions /\ wsState[c] = "open")
                        => /\ sent'[c] = Append(sent[c], Head(work[c].todo))
                           /\ Plan(c)' \in {Plan(c), Append(Plan(c), Out("listen_start", 0, 0))}
                   /\ NOfType(Plan(c)', {"text_response"} \cup SpeechUnits)
                        <= NOfType(Plan(c), {"text_response"} \cup SpeechUnits)]_vars
\* After a synthesised response was sent in full, the response to a text input
\* was sent too and its handler has returned: the text response is the last
\* unit the session was sent and no TTS start follows the TTS stop.
C40_Witness ==
    \E c \in Conns :
        /\ pc[c] = "idle" /\ c \in sessions /\ wsState[c] = "open"
        /\ sent[c] # <<>>
        /\ sent[c][Len(sent[c])] = Out("text_response", 0, 0)
        /\ NOfType(sent[c], {"text_response"}) = 1
        /\ NStarts(sent[c]) = 1 /\ NStops(sent[c]) = 1

====
